---------------------------- MODULE Spec2Model ----------------------------
(***************************************************************************)
(* Mortgage amortization engine, track variants, early-payment fee and     *)
(* pipeline aggregation of Real_Estate_Business_Model.                     *)
(*                                                                         *)
(* Numbers.  The program computes in binary floating point.  The model     *)
(* computes in exact rationals <<numerator, denominator>> (denominator     *)
(* > 0, lowest terms) and rounds exactly where the program calls round():  *)
(* round(x, 2) and round(x) are Python's round-half-to-even.  Rates and    *)
(* amounts are drawn from small sets that keep every intermediate product  *)
(* inside TLC's 32-bit integers.                                           *)
(*                                                                         *)
(* Lists.  Every linked_index / forecasting_interest_rate list the         *)
(* repository builds is a constant list ([0.0] * 360, [0.02 / 12 for _ in  *)
(* range(360)]); the model keeps such a list as [len, val].                *)
(***************************************************************************)
EXTENDS Integers, Sequences, FiniteSets, TLC

VARIABLES tracks, total_initial_loan_amount, ret

vars == <<tracks, total_initial_loan_amount, ret>>

-----------------------------------------------------------------------------
(* Bounds of the model *)

MaxPayments == 3

MaxLoan == 2

(* Months beyond one year in the terms of the year-long pipelines. *)
MaxExtraMonths == 1

(* Years of elapsed months the discount factor is asked for. *)
MaxDiscountYears == 5

(* Program constants *)

MONTHS_IN_YEAR == 12

DefaultIndexLen == 360

-----------------------------------------------------------------------------
(* Exact rational arithmetic standing for the program's float arithmetic *)

Abs(a) == IF a < 0 THEN -a ELSE a

RECURSIVE GCD(_, _)
GCD(a, b) == IF b = 0 THEN a ELSE GCD(b, a % b)

Rat(n, d) ==
    LET g == GCD(Abs(n), Abs(d))
        s == IF d < 0 THEN -1 ELSE 1
    IN  <<s * (n \div g), s * (d \div g)>>

Zero == <<0, 1>>

One == <<1, 1>>

FromInt(i) == <<i, 1>>

RNeg(x) == <<-x[1], x[2]>>

RAdd(x, y) ==
    LET g == GCD(x[2], y[2])
        l == (x[2] \div g) * y[2]
    IN  Rat(x[1] * (l \div x[2]) + y[1] * (l \div y[2]), l)

RSub(x, y) == RAdd(x, RNeg(y))

RMul(x, y) ==
    LET g1 == GCD(Abs(x[1]), y[2])
        g2 == GCD(Abs(y[1]), x[2])
    IN  IF x[1] = 0 \/ y[1] = 0 THEN Zero
        ELSE <<(x[1] \div g1) * (y[1] \div g2), (x[2] \div g2) * (y[2] \div g1)>>

RInv(x) == IF x[1] < 0 THEN <<-x[2], -x[1]>> ELSE <<x[2], x[1]>>

RDiv(x, y) == RMul(x, RInv(y))

RECURSIVE RPow(_, _)
RPow(x, k) == IF k = 0 THEN One ELSE RMul(x, RPow(x, k - 1))

RLess(x, y) == x[1] * y[2] < y[1] * x[2]

RMin(x, y) == IF RLess(y, x) THEN y ELSE x

(* The element of a one-element set: Only({e(v) : v \in {d}}) is e with   *)
(* the local variable v assigned d, computed once.                         *)
Only(S) == CHOOSE v \in S : TRUE

RECURSIVE RSum(_)
RSum(s) == IF Len(s) = 0 THEN Zero ELSE RAdd(Head(s), RSum(Tail(s)))

(* Python round(x): nearest integer, ties to the even one. *)
RoundHalfEven(x) ==
    LET q == x[1] \div x[2]
        r == x[1] - q * x[2]
    IN  IF 2 * r < x[2] THEN q
        ELSE IF 2 * r > x[2] THEN q + 1
        ELSE IF q % 2 = 0 THEN q ELSE q + 1

(* Python round(x, 2). *)
Round2(x) == Rat(RoundHalfEven(RMul(x, FromInt(100))), 100)

-----------------------------------------------------------------------------
(* Lists kept as [len, val]; Python raises IndexError past the end. *)

ConstList(n, v) == [len |-> n, val |-> v]

InRange(list, i) == i < list.len

ListVal(list) == list.val

-----------------------------------------------------------------------------
(* numpy_financial, as the program calls it *)

(* npf.pmt(rate, nper, pv) with fv = 0, when = 'end'. *)
Pmt(rate, nper, pv) ==
    LET temp == RPow(RAdd(One, rate), nper)
        fact == IF rate = Zero THEN FromInt(nper)
                ELSE RDiv(RSub(temp, One), rate)
    IN  RNeg(RDiv(RMul(pv, temp), fact))

(* npf.npv(rate, values) = sum of values[i] / (1 + rate) ** i, i from 0. *)
RECURSIVE NpvFrom(_, _, _)
NpvFrom(rate, values, i) ==
    IF i >= Len(values) THEN Zero
    ELSE LET rest == NpvFrom(rate, values, i + 1)
         IN  (* the test is always true: it has the later terms summed     *)
             (* before this one is added                                   *)
             IF rest = rest
             THEN RAdd(RDiv(values[i + 1], RPow(RAdd(One, rate), i)), rest)
             ELSE Zero

Npv(rate, values) == NpvFrom(rate, values, 0)

-----------------------------------------------------------------------------
(* MortgageTrack *)

TrackClasses == {"ConstantNotLinked", "Eligibility", "Prime", "ChangeLinked"}

(* An optional constructor argument: None (of a rate, of a list), or a    *)
(* value.                                                                  *)
NoRate == [given |-> FALSE, val |-> Zero]

NoList == [given |-> FALSE, val |-> ConstList(0, Zero)]

Some(v) == [given |-> TRUE, val |-> v]

(* Python truthiness of an optional list: None and [] are falsy. *)
TruthyList(arg) == arg.given /\ arg.val.len > 0

(* Python truthiness of an optional float: None and 0.0 are falsy. *)
TruthyRate(arg) == arg.given /\ arg.val # Zero

(* MortgageTrack.__init__; interest_changing_period is the attribute that  *)
(* ChangeLinked.__init__ adds (0 for the classes that have none).          *)
MortgageTrack(cls, interest_rate, num_payments, initial_loan_amount, linked_index, forecasting_interest_rate, average_interest_when_taken, interest_only_period, interest_changing_period) ==
    [cls |-> cls,
     interest_rate |-> interest_rate,
     num_payments |-> num_payments,
     initial_loan_amount |-> initial_loan_amount,
     linked_index |->
        IF TruthyList(linked_index) THEN linked_index.val
        ELSE ConstList(DefaultIndexLen, Zero),
     forecasting_interest_rate |->
        IF TruthyList(forecasting_interest_rate) THEN forecasting_interest_rate.val
        ELSE ConstList(DefaultIndexLen, Zero),
     average_interest_when_taken |->
        IF TruthyRate(average_interest_when_taken) THEN average_interest_when_taken.val
        ELSE interest_rate,
     interest_only_period |-> interest_only_period,
     interest_changing_period |-> interest_changing_period]

MonthlyInterest(track) == RDiv(track.interest_rate, FromInt(MONTHS_IN_YEAR))

(* A variant of InterestOnlyMonth that charges the interest unrounded. *)
InterestOnlyMonthUnrounded(remaining_balance, monthly_interest) ==
    LET interest_payment == RMul(remaining_balance, monthly_interest)
        principal_payment == Zero
    IN  [principal_payment |-> principal_payment,
         interest_payment |-> interest_payment,
         remaining_balance |-> remaining_balance,
         monthly_payment |-> RAdd(principal_payment, interest_payment)]

(* One pass of the interest-only loop of _calculate_payments. *)
InterestOnlyMonth(remaining_balance, monthly_interest) ==
    LET interest_payment == Round2(RMul(remaining_balance, monthly_interest))
        principal_payment == Zero
    IN  [principal_payment |-> principal_payment,
         interest_payment |-> interest_payment,
         remaining_balance |-> remaining_balance,
         monthly_payment |-> RAdd(principal_payment, interest_payment)]

(* A variant of AmortizingMonth that records the rounded annuity payment   *)
(* as the monthly payment instead of adding the two rounded parts.         *)
AmortizingMonthRoundedTotal(remaining_balance, monthly_interest, periods_left, linked) ==
    LET balance == RMul(remaining_balance, RAdd(One, linked))
        interest_payment == RMul(balance, monthly_interest)
        principal_payment ==
            RSub(Pmt(monthly_interest, periods_left, RNeg(balance)), interest_payment)
        new_balance == RSub(balance, principal_payment)
    IN  [principal_payment |-> Round2(principal_payment),
         interest_payment |-> Round2(interest_payment),
         remaining_balance |-> Round2(new_balance),
         monthly_payment |-> Round2(RAdd(principal_payment, interest_payment))]

(* One pass of the amortizing loop of _calculate_payments: index growth,   *)
(* interest, principal from the annuity payment over the periods left,     *)
(* then rounding; the rounded balance is the one carried to the next pass. *)
AmortizingMonth(remaining_balance, monthly_interest, periods_left, linked) ==
    LET balance == RMul(remaining_balance, RAdd(One, linked))
        interest_payment == RMul(balance, monthly_interest)
        principal_payment ==
            RSub(Pmt(monthly_interest, periods_left, RNeg(balance)), interest_payment)
        new_balance == RSub(balance, principal_payment)
    IN  [principal_payment |-> Round2(principal_payment),
         interest_payment |-> Round2(interest_payment),
         remaining_balance |-> Round2(new_balance),
         monthly_payment |-> RAdd(Round2(principal_payment), Round2(interest_payment))]

EmptySchedule ==
    [err |-> "ok",
     principal_payments |-> <<>>,
     interest_payments |-> <<>>,
     monthly_payments |-> <<>>,
     remaining_balances |-> <<>>]

AppendMonth(acc, m) ==
    [err |-> acc.err,
     principal_payments |-> Append(acc.principal_payments, m.principal_payment),
     interest_payments |-> Append(acc.interest_payments, m.interest_payment),
     monthly_payments |-> Append(acc.monthly_payments, m.monthly_payment),
     remaining_balances |-> Append(acc.remaining_balances, m.remaining_balance)]

RECURSIVE InterestOnlyLoop(_, _, _, _)
InterestOnlyLoop(i, remaining_balance, monthly_interest, acc) ==
    IF i <= 0 THEN acc
    ELSE InterestOnlyLoop(i - 1, remaining_balance, monthly_interest,
                          AppendMonth(acc, InterestOnlyMonth(remaining_balance,
                                                             monthly_interest)))

(* The amortizing loop.  interest_rate is the loop's drifting local: the   *)
(* program multiplies it by 1 + forecasting_interest_rate[period - 1] and  *)
(* never reads it again, monthly_interest having been fixed before the     *)
(* loops.                                                                  *)
RECURSIVE AmortizingLoop(_, _, _, _, _, _, _)
AmortizingLoop(track, period, num_payments, remaining_balance, interest_rate, monthly_interest, acc) ==
    IF period > num_payments THEN acc
    ELSE IF ~InRange(track.linked_index, period - 1)
            \/ ~InRange(track.forecasting_interest_rate, period - 1)
    THEN [acc EXCEPT !.err = "IndexError"]
    ELSE LET m == AmortizingMonth(remaining_balance, monthly_interest,
                                  num_payments - (period - 1),
                                  ListVal(track.linked_index))
             appended == AppendMonth(acc, m)
         IN  (* the test is always true: it has the month computed in this  *)
             (* pass, as the program does, rather than after the last one   *)
             IF appended = appended
             THEN AmortizingLoop(track, period + 1, num_payments, m.remaining_balance,
                            RMul(interest_rate,
                                 RAdd(One, ListVal(track.forecasting_interest_rate))),
                            monthly_interest, appended)
             ELSE acc

(* MortgageTrack._calculate_payments; the two running totals it also       *)
(* returns (elements 4 and 5) are read by no operation modelled here.      *)
CalculatePayments(track) ==
    AmortizingLoop(track, 1, track.num_payments - track.interest_only_period,
                   FromInt(track.initial_loan_amount), track.interest_rate,
                   MonthlyInterest(track),
                   InterestOnlyLoop(track.interest_only_period,
                                    FromInt(track.initial_loan_amount),
                                    MonthlyInterest(track), EmptySchedule))


(* MortgageTrack.calculate_initial_monthly_payment *)
CalculateInitialMonthlyPayment(track) ==
    Pmt(MonthlyInterest(track), track.num_payments,
        RNeg(FromInt(track.initial_loan_amount)))

-----------------------------------------------------------------------------
(* Early-payment fee *)

(* Python slices B[m:] and B[:n] (n >= 0). *)
SliceFrom(B, m) ==
    LET start == IF m < 0 THEN (IF Len(B) + m < 0 THEN 0 ELSE Len(B) + m)
                 ELSE (IF m > Len(B) THEN Len(B) ELSE m)
    IN  SubSeq(B, start + 1, Len(B))

SliceTo(B, n) == SubSeq(B, 1, IF n > Len(B) THEN Len(B) ELSE n)

(* A variant of EarlyPaymentFeeFormula that leaves the reference rate A     *)
(* annual while C and R are converted to monthly rates.                    *)
EarlyPaymentFeeFormulaAnnualReference(A0, B, C0, R0, n0) ==
    LET A == A0
        C1 == RDiv(C0, FromInt(12))
        R == RDiv(R0, FromInt(12))
        n == IF n0 < 0 \/ n0 > Len(B) THEN Len(B) ELSE n0
        B_n == SliceTo(B, n)
        B_N == SliceFrom(B, n)
        C == RMin(C1, R)
        aa == Npv(A, <<Zero>> \o B_n)
        bb == RMul(RDiv(One, RPow(RAdd(One, A), n)), Npv(R, <<Zero>> \o B_N))
        cc == Npv(C, <<Zero>> \o B_n)
        dd == RMul(RDiv(One, RPow(RAdd(One, C), n)), Npv(R, <<Zero>> \o B_N))
    IN  RoundHalfEven(RSub(RAdd(aa, bb), RAdd(cc, dd)))

(* mortgage_financial_utils_il.calculate_early_payment_fee(A, B, C, R, n) *)
EarlyPaymentFeeFormula(A0, B, C0, R0, n0) ==
    LET A == RDiv(A0, FromInt(12))
        C1 == RDiv(C0, FromInt(12))
        R == RDiv(R0, FromInt(12))
        n == IF n0 < 0 \/ n0 > Len(B) THEN Len(B) ELSE n0
        B_n == SliceTo(B, n)
        B_N == SliceFrom(B, n)
        C == RMin(C1, R)
        aa == Npv(A, <<Zero>> \o B_n)
        bb == RMul(RDiv(One, RPow(RAdd(One, A), n)), Npv(R, <<Zero>> \o B_N))
        cc == Npv(C, <<Zero>> \o B_n)
        dd == RMul(RDiv(One, RPow(RAdd(One, C), n)), Npv(R, <<Zero>> \o B_N))
    IN  RoundHalfEven(RSub(RAdd(aa, bb), RAdd(cc, dd)))

(* calculate_early_payment_fee of mortgage_utils.mortgage_financial_utils,  *)
(* the module ChangeLinked imports: the regulatory formula, fee(A, B, C, R, *)
(* n) with the reset horizon n, in the same six steps.                      *)
LegacyEarlyPaymentFeeFormula(A0, B, C0, R0, n0) ==
    EarlyPaymentFeeFormula(A0, B, C0, R0, n0)

(* A variant of CalculateDiscountFactor whose thresholds are exclusive. *)
CalculateDiscountFactorExclusive(num_of_months, eligibility_present) ==
    IF eligibility_present
    THEN IF num_of_months > 48 THEN Rat(6, 10)
         ELSE IF num_of_months > 36 THEN Rat(7, 10)
         ELSE IF num_of_months > 24 THEN Rat(8, 10)
         ELSE IF num_of_months > 12 THEN Rat(9, 10)
         ELSE One
    ELSE IF num_of_months > 60 THEN Rat(7, 10)
         ELSE IF num_of_months > 36 THEN Rat(8, 10)
         ELSE One

(* mortgage_financial_utils_il.calculate_discount_factor *)
CalculateDiscountFactor(num_of_months, eligibility_present) ==
    IF eligibility_present
    THEN IF num_of_months >= 48 THEN Rat(6, 10)
         ELSE IF num_of_months >= 36 THEN Rat(7, 10)
         ELSE IF num_of_months >= 24 THEN Rat(8, 10)
         ELSE IF num_of_months >= 12 THEN Rat(9, 10)
         ELSE One
    ELSE IF num_of_months >= 60 THEN Rat(7, 10)
         ELSE IF num_of_months >= 36 THEN Rat(8, 10)
         ELSE One

(* The outcome of a fee call: its status, the value returned (0 when it    *)
(* raised) and the computations it ran before returning or raising.        *)
FeeResult(status, value, computed) ==
    [status |-> status, value |-> value, computed |-> computed]

(* The argument check of the ConstantNotLinked, Eligibility and Prime      *)
(* variants.                                                               *)
NegativeArguments(num_of_months, average_interest_in_early_payment) ==
    num_of_months < 0 \/ RLess(average_interest_in_early_payment, Zero)

(* A variant of ConstantNotLinkedFee that prices the months already paid   *)
(* (payments[:num_of_months]) instead of the months that remain.           *)
ConstantNotLinkedFeePaidMonths(track, num_of_months, average_interest_in_early_payment) ==
    IF NegativeArguments(num_of_months, average_interest_in_early_payment)
    THEN FeeResult("ValueError", 0, {})
    ELSE Only({IF schedule.err # "ok" THEN FeeResult(schedule.err, 0, {"schedule"})
               ELSE FeeResult("ok",
                       EarlyPaymentFeeFormula(average_interest_in_early_payment,
                           SliceTo(schedule.monthly_payments, num_of_months),
                           track.interest_rate, track.average_interest_when_taken, -1),
                       {"schedule", "npv"}) :
               schedule \in {CalculatePayments(track)}})

(* ConstantNotLinked.calculate_early_payment_fee *)
ConstantNotLinkedFee(track, num_of_months, average_interest_in_early_payment) ==
    IF NegativeArguments(num_of_months, average_interest_in_early_payment)
    THEN FeeResult("ValueError", 0, {})
    ELSE Only({IF schedule.err # "ok" THEN FeeResult(schedule.err, 0, {"schedule"})
               ELSE FeeResult("ok",
                       EarlyPaymentFeeFormula(average_interest_in_early_payment,
                           SliceFrom(schedule.monthly_payments, num_of_months),
                           track.interest_rate, track.average_interest_when_taken, -1),
                       {"schedule", "npv"}) :
               schedule \in {CalculatePayments(track)}})

(* A variant of EligibilityFee that charges the regulatory formula like a  *)
(* track with no exemption.                                                *)
EligibilityFeeByFormula(track, num_of_months, average_interest_in_early_payment) ==
    ConstantNotLinkedFee(track, num_of_months, average_interest_in_early_payment)

(* Eligibility.calculate_early_payment_fee *)
EligibilityFee(track, num_of_months, average_interest_in_early_payment) ==
    IF NegativeArguments(num_of_months, average_interest_in_early_payment)
    THEN FeeResult("ValueError", 0, {})
    ELSE FeeResult("ok", 0, {})

(* Prime.calculate_early_payment_fee *)
PrimeFee(track, num_of_months, average_interest_in_early_payment) ==
    IF NegativeArguments(num_of_months, average_interest_in_early_payment)
    THEN FeeResult("ValueError", 0, {})
    ELSE FeeResult("ok", 0, {})

(* A variant of ChangeLinkedFee that prices the whole projection, whatever *)
(* num_of_months is.                                                       *)
ChangeLinkedFeeWholeProjection(track, num_of_months, average_interest_in_early_payment) ==
    LET monthly_payments_without_linking ==
            [k \in 1..track.num_payments |-> CalculateInitialMonthlyPayment(track)]
    IN  FeeResult("ok",
            LegacyEarlyPaymentFeeFormula(average_interest_in_early_payment,
                monthly_payments_without_linking,
                track.interest_rate, track.average_interest_when_taken,
                track.interest_changing_period),
            {"npv"})

(* ChangeLinked.calculate_early_payment_fee: no argument check; the        *)
(* projection is num_payments copies of the initial monthly payment.       *)
ChangeLinkedFee(track, num_of_months, average_interest_in_early_payment) ==
    LET monthly_payments_without_linking ==
            [k \in 1..track.num_payments |-> CalculateInitialMonthlyPayment(track)]
    IN  FeeResult("ok",
            LegacyEarlyPaymentFeeFormula(average_interest_in_early_payment,
                SliceFrom(monthly_payments_without_linking, num_of_months),
                track.interest_rate, track.average_interest_when_taken,
                track.interest_changing_period),
            {"npv"})

(* Dispatch of track.calculate_early_payment_fee on the track's class. *)
TrackFee(track, num_of_months, average_interest_in_early_payment) ==
    CASE track.cls = "ConstantNotLinked" ->
            ConstantNotLinkedFee(track, num_of_months, average_interest_in_early_payment)
      [] track.cls = "Eligibility" ->
            EligibilityFee(track, num_of_months, average_interest_in_early_payment)
      [] track.cls = "Prime" ->
            PrimeFee(track, num_of_months, average_interest_in_early_payment)
      [] track.cls = "ChangeLinked" ->
            ChangeLinkedFee(track, num_of_months, average_interest_in_early_payment)


-----------------------------------------------------------------------------
(* MortgagePipeline *)

RECURSIVE SumLoans(_)
SumLoans(ts) ==
    IF Len(ts) = 0 THEN 0 ELSE Head(ts).initial_loan_amount + SumLoans(Tail(ts))

RECURSIVE MaxLen(_)
MaxLen(lists) ==
    IF Len(lists) = 0 THEN 0
    ELSE LET rest == MaxLen(Tail(lists))
         IN  IF Len(Head(lists)) > rest THEN Len(Head(lists)) ELSE rest

(* One tuple of itertools.zip_longest of the lists, fillvalue 0, summed. *)
RECURSIVE SumAt(_, _)
SumAt(lists, k) ==
    IF Len(lists) = 0 THEN Zero
    ELSE RAdd(IF k <= Len(Head(lists)) THEN Head(lists)[k] ELSE Zero,
              SumAt(Tail(lists), k))

(* [sum(x) for x in zip_longest(..., fillvalue=0)] *)
ZipLongestSum(lists) == [k \in 1..MaxLen(lists) |-> SumAt(lists, k)]

Schedules(ts) == [j \in 1..Len(ts) |-> CalculatePayments(ts[j])]

(* A pipeline series raises what a track's _calculate_payments raises. *)
SchedulesStatus(scheds) ==
    IF \E j \in 1..Len(scheds) : scheds[j].err # "ok" THEN "IndexError" ELSE "ok"

(* MortgagePipeline.get_principal_payments *)
PipelinePrincipalPayments(scheds) ==
    ZipLongestSum([j \in 1..Len(scheds) |-> scheds[j].principal_payments])

(* MortgagePipeline.get_interest_payments *)
PipelineInterestPayments(scheds) ==
    ZipLongestSum([j \in 1..Len(scheds) |-> scheds[j].interest_payments])

(* MortgagePipeline.get_monthly_payments: each sum goes through round(). *)
PipelineMonthlyPayments(scheds) ==
    LET sums == ZipLongestSum([j \in 1..Len(scheds) |-> scheds[j].monthly_payments])
    IN  [k \in 1..Len(sums) |-> FromInt(RoundHalfEven(sums[k]))]

(* MortgagePipeline.get_remain_balances *)
PipelineRemainBalances(scheds) ==
    ZipLongestSum([j \in 1..Len(scheds) |-> scheds[j].remaining_balances])

(* list(np.array(series).reshape(-1, 12).sum(axis=1)): numpy raises      *)
(* ValueError when the length is no multiple of 12.                        *)
ReshapeSum(series) ==
    IF Len(series) % MONTHS_IN_YEAR # 0
    THEN [status |-> "ValueError", value |-> <<>>]
    ELSE [status |-> "ok",
          value |-> [k \in 1..(Len(series) \div MONTHS_IN_YEAR) |->
                        RSum(SubSeq(series, MONTHS_IN_YEAR * (k - 1) + 1,
                                    MONTHS_IN_YEAR * k))]]

(* [balance for i, balance in enumerate(balances) if i % 12 == 0]: the    *)
(* entries at the 0-based positions 0, 12, 24, ...                         *)
SampleEveryTwelfth(balances) ==
    [k \in 1..((Len(balances) + MONTHS_IN_YEAR - 1) \div MONTHS_IN_YEAR) |->
        balances[MONTHS_IN_YEAR * (k - 1) + 1]]

(* Python objects: the tracks of a pipeline that is asked for its shares   *)
(* carry the identity of the object they are (obj); a track object has no  *)
(* __eq__ or __hash__, so a dictionary keyed by tracks is keyed by it.     *)
WithObject(track, obj) == [obj |-> obj] @@ track

Objects(ts) == {ts[j].obj : j \in 1..Len(ts)}

(* The track an object is: every position of the list that holds the      *)
(* object shows the same attributes.                                       *)
TrackOf(ts, obj) == ts[CHOOSE j \in 1..Len(ts) : ts[j].obj = obj]

(* sum(...) over the items of a dictionary keyed by track objects. *)
RECURSIVE SumOverItems(_)
SumOverItems(dic) ==
    IF DOMAIN dic = {} THEN Zero
    ELSE LET k == CHOOSE o \in DOMAIN dic : TRUE
         IN  RAdd(dic[k], SumOverItems([o \in DOMAIN dic \ {k} |-> dic[o]]))

(* MortgagePipeline.get_tracks_percentages_dic: the list of shares is      *)
(* zipped into a dictionary keyed by the track objects, one item for an    *)
(* object however many positions of the list hold it.                      *)
GetTracksPercentagesDicOf(ts, total) ==
    [obj \in Objects(ts) |-> Rat(TrackOf(ts, obj).initial_loan_amount, total)]

(* MortgagePipeline.calculate_weighted_average_interest_rates *)
WeightedAverageInterestRates(ts, total) ==
    LET dic == GetTracksPercentagesDicOf(ts, total)
    IN  SumOverItems([obj \in DOMAIN dic |->
                         RMul(TrackOf(ts, obj).interest_rate, dic[obj])])

(* np.ceil *)
Ceil(x) ==
    LET q == x[1] \div x[2]
    IN  IF q * x[2] = x[1] THEN q ELSE q + 1

(* MortgagePipeline.calculate_initial_monthly_payment *)
PipelineInitialMonthlyPayment(ts) ==
    Ceil(RSum([j \in 1..Len(ts) |-> CalculateInitialMonthlyPayment(ts[j])]))

(* MortgagePipeline.calculate_normalize_resource_allocation *)
NormalizeResourceAllocation(ts) ==
    [obj \in Objects(ts) |->
        RDiv(CalculateInitialMonthlyPayment(TrackOf(ts, obj)),
             FromInt(PipelineInitialMonthlyPayment(ts)))]

(* MortgagePipeline.get_num_of_payments *)
RECURSIVE GetNumOfPayments(_)
GetNumOfPayments(ts) ==
    IF Len(ts) = 1 THEN Head(ts).num_payments
    ELSE LET rest == GetNumOfPayments(Tail(ts))
         IN  IF Head(ts).num_payments > rest THEN Head(ts).num_payments ELSE rest

(* The generator of MortgagePipeline.calculate_early_payment_fee, summed   *)
(* track by track: the reference rate is looked up by the track's class   *)
(* (KeyError when the dictionary has no such key), and the first track    *)
(* that raises ends the call.                                             *)
RECURSIVE SumTrackFees(_, _, _)
SumTrackFees(ts, num_of_months, average_interest_in_early_payment) ==
    IF Len(ts) = 0 THEN FeeResult("ok", 0, {})
    ELSE IF Head(ts).cls \notin DOMAIN average_interest_in_early_payment
    THEN FeeResult("KeyError", 0, {})
    ELSE Only({IF r.status # "ok" THEN r
               ELSE Only({IF rest.status # "ok"
                          THEN FeeResult(rest.status, 0, r.computed \cup rest.computed)
                          ELSE FeeResult("ok", r.value + rest.value,
                                         r.computed \cup rest.computed) :
                          rest \in {SumTrackFees(Tail(ts), num_of_months,
                                                 average_interest_in_early_payment)}}) :
               r \in {TrackFee(Head(ts), num_of_months,
                               average_interest_in_early_payment[Head(ts).cls])}})

(* any(isinstance(track, Eligibility) for track in self.tracks) *)
EligibilityPresent(ts) == \E j \in 1..Len(ts) : ts[j].cls = "Eligibility"

(* A variant of PipelineFee that looks the discount factor up as if no     *)
(* track were an Eligibility track.                                        *)
PipelineFeeNoEligibility(ts, num_of_months, average_interest_in_early_payment) ==
    LET discount_factor == CalculateDiscountFactor(num_of_months, FALSE)
    IN  Only({IF full_early_payment_fee.status # "ok" THEN full_early_payment_fee
              ELSE FeeResult("ok",
                       RoundHalfEven(RMul(discount_factor,
                                          FromInt(full_early_payment_fee.value))),
                       full_early_payment_fee.computed) :
              full_early_payment_fee \in
                  {SumTrackFees(ts, num_of_months, average_interest_in_early_payment)}})

(* MortgagePipeline.calculate_early_payment_fee *)
PipelineFee(ts, num_of_months, average_interest_in_early_payment) ==
    LET discount_factor == CalculateDiscountFactor(num_of_months, EligibilityPresent(ts))
    IN  Only({IF full_early_payment_fee.status # "ok" THEN full_early_payment_fee
              ELSE FeeResult("ok",
                       RoundHalfEven(RMul(discount_factor,
                                          FromInt(full_early_payment_fee.value))),
                       full_early_payment_fee.computed) :
              full_early_payment_fee \in
                  {SumTrackFees(ts, num_of_months, average_interest_in_early_payment)}})

(* Optional arguments of calculate_total_cost_of_borrowing: None, or a    *)
(* number of years, or a dictionary of reference rates.                    *)
NoYears == [given |-> FALSE, val |-> 0]

NoRates == [given |-> FALSE, val |-> [c \in {} |-> Zero]]

(* MortgagePipeline.get_total_payment() with no months_to_exit: the sum of *)
(* the tracks' calculate_total_repayment(), each the sum of the track's    *)
(* monthly payments.                                                       *)
GetTotalPayment(scheds) ==
    RSum([j \in 1..Len(scheds) |-> RSum(scheds[j].monthly_payments)])

(* The outcome of calculate_total_cost_of_borrowing: its status, the value *)
(* returned (0 when it raised) and the figure it set out to compute.       *)
CostResult(status, value, figure) ==
    [status |-> status, value |-> value, figure |-> figure]

(* MortgagePipeline.calculate_total_cost_of_borrowing *)
TotalCostOfBorrowing(ts, total, years_to_exit, average_interest_in_early_payment) ==
    Only({
        IF SchedulesStatus(scheds) # "ok"
        THEN CostResult(SchedulesStatus(scheds), 0, "none")
        ELSE IF ~years_to_exit.given \/ ~average_interest_in_early_payment.given
        THEN CostResult("ok",
                 RoundHalfEven(RSub(GetTotalPayment(scheds), FromInt(total))),
                 "full_term")
        ELSE LET months_to_exit == 12 * years_to_exit.val
             IN  Only({IF fee.status # "ok" THEN CostResult(fee.status, 0, "exit")
                       ELSE CostResult("ok",
                                RoundHalfEven(
                                    RAdd(RSum(SliceTo(PipelineInterestPayments(scheds),
                                                      months_to_exit)),
                                         FromInt(fee.value))),
                                "exit") :
                       fee \in {PipelineFee(ts, months_to_exit,
                                            average_interest_in_early_payment.val)}}) :
        scheds \in {Schedules(ts)}})

-----------------------------------------------------------------------------
(* Inputs of the model *)

(* Annual rates; the monthly rates are 0, 1/7 and 1/3. *)
TrackRates == {Zero, <<12, 7>>, <<4, 1>>}

(* Reference rates passed to the fee calculations, one of them negative. *)
ReferenceRates == {<<-4, 1>>, Zero, <<12, 7>>, <<4, 1>>}

AverageRates == {NoRate, Some(<<12, 7>>)}

IndexLists == {NoList, Some(ConstList(DefaultIndexLen, <<1, 10>>))}

ChangingPeriods == {1, 2}

InterestOnlyPeriods == 0..(MaxPayments + 1)

(* Loan amounts, in tens of currency units. *)
LoanAmounts == {10 * k : k \in 1..MaxLoan}

Months == (-1)..(MaxPayments + 1)

ConstantNotLinked(interest_rate, num_payments, initial_loan_amount, average_interest_when_taken, interest_only_period) ==
    MortgageTrack("ConstantNotLinked", interest_rate, num_payments,
                  initial_loan_amount, NoList, NoList, average_interest_when_taken,
                  interest_only_period, 0)

Eligibility(interest_rate, num_payments, initial_loan_amount, linked_index, average_interest_when_taken) ==
    MortgageTrack("Eligibility", interest_rate, num_payments, initial_loan_amount,
                  linked_index, NoList, average_interest_when_taken, 0, 0)

Prime(interest_rate, num_payments, initial_loan_amount, forecasting_interest_rate, average_interest_when_taken, interest_only_period) ==
    MortgageTrack("Prime", interest_rate, num_payments, initial_loan_amount, NoList,
                  forecasting_interest_rate, average_interest_when_taken,
                  interest_only_period, 0)

ChangeLinked(interest_rate, num_payments, initial_loan_amount, linked_index, forecasting_interest_rate, interest_changing_period, average_interest_when_taken, interest_only_period) ==
    MortgageTrack("ChangeLinked", interest_rate, num_payments, initial_loan_amount,
                  linked_index, forecasting_interest_rate,
                  average_interest_when_taken, interest_only_period,
                  interest_changing_period)

TrackDomain ==
    UNION {
        {ConstantNotLinked(r, n, a, avg, iop) :
            r \in TrackRates, n \in 1..MaxPayments, a \in LoanAmounts,
            avg \in AverageRates, iop \in InterestOnlyPeriods},
        {Eligibility(r, n, a, li, avg) :
            r \in TrackRates, n \in 1..MaxPayments, a \in LoanAmounts,
            li \in IndexLists, avg \in AverageRates},
        {Prime(r, n, a, f, avg, iop) :
            r \in TrackRates, n \in 1..MaxPayments, a \in LoanAmounts,
            f \in IndexLists, avg \in AverageRates, iop \in InterestOnlyPeriods},
        {ChangeLinked(r, n, a, li, NoList, cp, avg, iop) :
            r \in TrackRates, n \in 1..MaxPayments, a \in LoanAmounts,
            li \in IndexLists, cp \in ChangingPeriods, avg \in AverageRates,
            iop \in InterestOnlyPeriods}
    }

(* Tracks of the two-track pipelines: not linked, and linked to an index. *)
PipelineRates == {Zero, <<12, 7>>}

PipelineInterestOnlyPeriods == {0, 1, MaxPayments + 1}

PipelineTrackDomain ==
    UNION {
        {ConstantNotLinked(r, n, a, NoRate, iop) :
            r \in PipelineRates, n \in 1..MaxPayments, a \in LoanAmounts,
            iop \in PipelineInterestOnlyPeriods},
        {Eligibility(r, n, a, Some(ConstList(DefaultIndexLen, <<1, 10>>)), NoRate) :
            r \in PipelineRates, n \in 1..MaxPayments, a \in LoanAmounts}
    }

-----------------------------------------------------------------------------
(* The state machine: a pipeline, and a single-threaded caller that makes  *)
(* one call at a time on it; ret is the outcome the caller holds, Idle      *)
(* between calls.                                                           *)

Idle == [op |-> "idle"]

(* MortgagePipeline.__init__ *)
Construct(ts) ==
    /\ tracks = ts
    /\ total_initial_loan_amount = SumLoans(ts)
    /\ ret = Idle

(* Tracks whose inputs are rewritten between reads of their schedule. *)
WriteTrackDomain ==
    UNION {
        {ConstantNotLinked(r, n, a, NoRate, 0) :
            r \in PipelineRates, n \in 1..MaxPayments, a \in LoanAmounts},
        {Eligibility(r, n, a, Some(ConstList(DefaultIndexLen, <<1, 10>>)), NoRate) :
            r \in PipelineRates, n \in 1..MaxPayments, a \in LoanAmounts},
        {Prime(r, n, a, NoList, NoRate, 0) :
            r \in PipelineRates, n \in 1..MaxPayments, a \in LoanAmounts}
    }

(* A variant of ReadSchedule that leaves the track without its             *)
(* interest-only period once the schedule is computed.                     *)
ReadScheduleConsumingInterestOnlyPeriod(i) ==
    /\ ret = Idle
    /\ \E p \in {CalculatePayments(tracks[i])} :
          ret' = [op |-> "schedule", track |-> i,
                  status |-> p.err,
                  principal_payments |-> p.principal_payments,
                  interest_payments |-> p.interest_payments,
                  monthly_payments |-> p.monthly_payments,
                  remaining_balances |-> p.remaining_balances]
    /\ tracks' = [tracks EXCEPT ![i].interest_only_period = 0]
    /\ UNCHANGED total_initial_loan_amount

(* The caller reads the four schedule accessors of track i one after the   *)
(* other.  Each accessor runs _calculate_payments afresh on the same       *)
(* attributes, so the four reads are the four lists of one run.            *)
ReadSchedule(i) ==
    /\ ret = Idle
    /\ \E p \in {CalculatePayments(tracks[i])} :
          ret' = [op |-> "schedule", track |-> i,
                  status |-> p.err,
                  principal_payments |-> p.principal_payments,
                  interest_payments |-> p.interest_payments,
                  monthly_payments |-> p.monthly_payments,
                  remaining_balances |-> p.remaining_balances]
    /\ UNCHANGED <<tracks, total_initial_loan_amount>>

(* track.calculate_early_payment_fee(num_of_months, rate) on track i *)
CalculateEarlyPaymentFee(i, num_of_months, rate) ==
    /\ ret = Idle
    /\ \E r \in {TrackFee(tracks[i], num_of_months, rate)} :
          ret' = [op |-> "calculate_early_payment_fee", track |-> i,
                  num_of_months |-> num_of_months, rate |-> rate,
                  status |-> r.status, value |-> r.value, computed |-> r.computed]
    /\ UNCHANGED <<tracks, total_initial_loan_amount>>

(* The call returns: the caller has its result and is ready for the next   *)
(* call.                                                                   *)
Return ==
    /\ ret # Idle
    /\ ret' = Idle
    /\ UNCHANGED <<tracks, total_initial_loan_amount>>

(* The outcome of a pipeline series call. *)
SeriesRet(op, scheds, value) ==
    [op |-> op, status |-> SchedulesStatus(scheds),
     value |-> IF SchedulesStatus(scheds) = "ok" THEN value ELSE <<>>]

(* pipeline.get_principal_payments() *)
GetPrincipalPayments ==
    /\ ret = Idle
    /\ \E scheds \in {Schedules(tracks)} :
          ret' = SeriesRet("get_principal_payments", scheds,
                           PipelinePrincipalPayments(scheds))
    /\ UNCHANGED <<tracks, total_initial_loan_amount>>

(* pipeline.get_interest_payments() *)
GetInterestPayments ==
    /\ ret = Idle
    /\ \E scheds \in {Schedules(tracks)} :
          ret' = SeriesRet("get_interest_payments", scheds,
                           PipelineInterestPayments(scheds))
    /\ UNCHANGED <<tracks, total_initial_loan_amount>>

(* pipeline.get_monthly_payments() *)
GetMonthlyPayments ==
    /\ ret = Idle
    /\ \E scheds \in {Schedules(tracks)} :
          ret' = SeriesRet("get_monthly_payments", scheds,
                           PipelineMonthlyPayments(scheds))
    /\ UNCHANGED <<tracks, total_initial_loan_amount>>

(* pipeline.get_remain_balances() *)
GetRemainBalances ==
    /\ ret = Idle
    /\ \E scheds \in {Schedules(tracks)} :
          ret' = SeriesRet("get_remain_balances", scheds,
                           PipelineRemainBalances(scheds))
    /\ UNCHANGED <<tracks, total_initial_loan_amount>>

Init == \E t \in TrackDomain : Construct(<<t>>)

Next ==
    \/ \E i \in 1..Len(tracks) : ReadSchedule(i)
    \/ \E i \in 1..Len(tracks), m \in Months, a \in ReferenceRates :
          CalculateEarlyPaymentFee(i, m, a)
    \/ Return

Spec == Init /\ [][Next]_vars

(* Pipelines of one or two tracks and the pipeline's monthly series. *)
InitPipeline ==
    \/ \E t \in PipelineTrackDomain : Construct(<<t>>)
    \/ \E t1 \in PipelineTrackDomain, t2 \in PipelineTrackDomain : Construct(<<t1, t2>>)

NextPipeline ==
    \/ GetPrincipalPayments
    \/ GetInterestPayments
    \/ GetMonthlyPayments
    \/ GetRemainBalances
    \/ Return

SpecPipeline == InitPipeline /\ [][NextPipeline]_vars

(* The discount factor, called on its own. *)
DiscountMonths == (-1)..(MONTHS_IN_YEAR * MaxDiscountYears + 1)

(* calculate_discount_factor(num_of_months, eligibility_present) *)
DiscountFactor(num_of_months, eligibility_present) ==
    /\ ret = Idle
    /\ ret' = [op |-> "calculate_discount_factor",
               num_of_months |-> num_of_months,
               eligibility_present |-> eligibility_present,
               value |-> CalculateDiscountFactor(num_of_months, eligibility_present)]
    /\ UNCHANGED <<tracks, total_initial_loan_amount>>

InitDiscount ==
    \E a \in LoanAmounts : Construct(<<ConstantNotLinked(Zero, 1, a, NoRate, 0)>>)

NextDiscount ==
    \/ \E m \in DiscountMonths, e \in BOOLEAN : DiscountFactor(m, e)
    \/ Return

SpecDiscount == InitDiscount /\ [][NextDiscount]_vars

(* Year-long pipelines: terms of a year and of a year and a few months.    *)
(* The tracks that amortize from the first month are at the zero rate and  *)
(* the one that bears interest (1 a month) pays interest only for its      *)
(* first year, so that the schedules and their discounting stay inside     *)
(* the integers.                                                           *)
Terms == MONTHS_IN_YEAR..(MONTHS_IN_YEAR + MaxExtraMonths)

LongLoanAmounts == {6 * MaxLoan}

LongTrackDomain ==
    UNION {
        {ConstantNotLinked(Zero, n, a, NoRate, iop) :
            n \in Terms, a \in LongLoanAmounts, iop \in {0, MONTHS_IN_YEAR}},
        {ConstantNotLinked(<<MONTHS_IN_YEAR, 1>>, n, a, NoRate, MONTHS_IN_YEAR) :
            n \in Terms, a \in LongLoanAmounts},
        {Eligibility(Zero, n, a, NoList, NoRate) : n \in Terms, a \in LongLoanAmounts}
    }

(* The months a pipeline fee is asked at, and the dictionaries of          *)
(* reference rates by track class: complete ones, one with a negative      *)
(* rate, and one without the Eligibility key.                              *)
FeeMonths == {-1, 0} \cup Terms

FeeRateDicts ==
    {("ConstantNotLinked" :> a) @@ ("Eligibility" :> Zero) :
        a \in {Zero, <<12, 1>>, <<-6, 1>>}}
    \cup {("ConstantNotLinked" :> <<12, 1>>)}

(* pipeline.calculate_early_payment_fee(num_of_months, rates) *)
PipelineCalculateEarlyPaymentFee(num_of_months, rates) ==
    /\ ret = Idle
    /\ \E r \in {PipelineFee(tracks, num_of_months, rates)} :
          ret' = [op |-> "pipeline.calculate_early_payment_fee",
                  num_of_months |-> num_of_months, rates |-> rates,
                  status |-> r.status, value |-> r.value, computed |-> r.computed]
    /\ UNCHANGED <<tracks, total_initial_loan_amount>>

(* The outcome of an annual series call: the monthly series is computed   *)
(* first, then reshaped and summed.                                        *)
AnnualRet(op, scheds, monthly) ==
    IF SchedulesStatus(scheds) # "ok"
    THEN [op |-> op, status |-> SchedulesStatus(scheds), value |-> <<>>]
    ELSE [op |-> op, status |-> ReshapeSum(monthly).status,
          value |-> ReshapeSum(monthly).value]

(* pipeline.get_annual_principal_payments() *)
GetAnnualPrincipalPayments ==
    /\ ret = Idle
    /\ \E scheds \in {Schedules(tracks)} :
          ret' = AnnualRet("get_annual_principal_payments", scheds,
                           PipelinePrincipalPayments(scheds))
    /\ UNCHANGED <<tracks, total_initial_loan_amount>>

(* pipeline.get_annual_interest_payments() *)
GetAnnualInterestPayments ==
    /\ ret = Idle
    /\ \E scheds \in {Schedules(tracks)} :
          ret' = AnnualRet("get_annual_interest_payments", scheds,
                           PipelineInterestPayments(scheds))
    /\ UNCHANGED <<tracks, total_initial_loan_amount>>

(* pipeline.get_annual_payments() *)
GetAnnualPayments ==
    /\ ret = Idle
    /\ \E scheds \in {Schedules(tracks)} :
          ret' = AnnualRet("get_annual_payments", scheds,
                           PipelineMonthlyPayments(scheds))
    /\ UNCHANGED <<tracks, total_initial_loan_amount>>

(* pipeline.get_annual_remain_balances() *)
GetAnnualRemainBalances ==
    /\ ret = Idle
    /\ \E scheds \in {Schedules(tracks)} :
          ret' = SeriesRet("get_annual_remain_balances", scheds,
                           SampleEveryTwelfth(PipelineRemainBalances(scheds)))
    /\ UNCHANGED <<tracks, total_initial_loan_amount>>

(* The exit horizons and rate dictionaries a cost of borrowing is asked   *)
(* with; either may be left out.                                           *)
ExitYears == {NoYears, Some(0), Some(1)}

CostRateDicts == {NoRates} \cup {Some(d) : d \in FeeRateDicts}

(* pipeline.calculate_total_cost_of_borrowing(years_to_exit, rates) *)
CalculateTotalCostOfBorrowing(years_to_exit, rates) ==
    /\ ret = Idle
    /\ \E r \in {TotalCostOfBorrowing(tracks, total_initial_loan_amount,
                                      years_to_exit, rates)} :
          ret' = [op |-> "calculate_total_cost_of_borrowing",
                  years_to_exit |-> years_to_exit, rates |-> rates,
                  status |-> r.status, value |-> r.value, figure |-> r.figure]
    /\ UNCHANGED <<tracks, total_initial_loan_amount>>

InitAnnual ==
    \/ \E t \in LongTrackDomain : Construct(<<t>>)
    \/ \E t1 \in LongTrackDomain, t2 \in LongTrackDomain : Construct(<<t1, t2>>)
    \/ \E t1 \in LongTrackDomain, t2 \in LongTrackDomain, t3 \in LongTrackDomain :
          /\ t1.cls = "ConstantNotLinked" /\ t2.cls = "ConstantNotLinked"
          /\ t3.cls = "Eligibility" /\ t3.num_payments = MONTHS_IN_YEAR
          /\ Construct(<<t1, t2, t3>>)

NextAnnual ==
    \/ \E m \in FeeMonths, rates \in FeeRateDicts :
          PipelineCalculateEarlyPaymentFee(m, rates)
    \/ GetAnnualPrincipalPayments
    \/ GetAnnualInterestPayments
    \/ GetAnnualPayments
    \/ GetAnnualRemainBalances
    \/ \E y \in ExitYears, rates \in CostRateDicts :
          CalculateTotalCostOfBorrowing(y, rates)
    \/ Return

SpecAnnual == InitAnnual /\ [][NextAnnual]_vars

(* track.initial_loan_amount = x on track i, as the sweeps of             *)
(* single_house_model.py do on tracks[0].                                  *)
SetInitialLoanAmount(i, x) ==
    /\ ret = Idle
    /\ tracks[i].initial_loan_amount # x
    /\ tracks' = [tracks EXCEPT ![i].initial_loan_amount = x]
    /\ UNCHANGED <<total_initial_loan_amount, ret>>

(* track.interest_only_period = x on track i *)
SetInterestOnlyPeriod(i, x) ==
    /\ ret = Idle
    /\ tracks[i].interest_only_period # x
    /\ tracks' = [tracks EXCEPT ![i].interest_only_period = x]
    /\ UNCHANGED <<total_initial_loan_amount, ret>>

(* track.interest_rate = x on track i; average_interest_when_taken, set    *)
(* by __init__, stays.                                                     *)
SetInterestRate(i, x) ==
    /\ ret = Idle
    /\ tracks[i].interest_rate # x
    /\ tracks' = [tracks EXCEPT ![i].interest_rate = x]
    /\ UNCHANGED <<total_initial_loan_amount, ret>>

InitWrites == \E t \in WriteTrackDomain : Construct(<<t>>)

NextWrites ==
    \/ \E i \in 1..Len(tracks) : ReadSchedule(i)
    \/ \E i \in 1..Len(tracks), x \in LoanAmounts : SetInitialLoanAmount(i, x)
    \/ \E i \in 1..Len(tracks), x \in InterestOnlyPeriods : SetInterestOnlyPeriod(i, x)
    \/ \E i \in 1..Len(tracks), x \in TrackRates : SetInterestRate(i, x)
    \/ Return

SpecWrites == InitWrites /\ [][NextWrites]_vars

(* Pipelines asked for their shares: one track, two track objects, or    *)
(* the same track object passed twice.                                     *)
ShareTrackDomain ==
    {ConstantNotLinked(r, n, a, NoRate, 0) :
        r \in TrackRates, n \in 1..MaxPayments, a \in LoanAmounts}

(* The amounts a sweep writes: up to one step above the largest loan. *)
SweepLoanAmounts == {10 * k : k \in 1..(MaxLoan + 1)}

(* A variant of SetFirstInitialLoanAmount in which the pipeline's total    *)
(* follows the write.                                                      *)
SetFirstInitialLoanAmountRefreshingTotal(x) ==
    /\ ret = Idle
    /\ tracks[1].initial_loan_amount # x
    /\ tracks' = [j \in 1..Len(tracks) |->
                    IF tracks[j].obj = tracks[1].obj
                    THEN [tracks[j] EXCEPT !.initial_loan_amount = x]
                    ELSE tracks[j]]
    /\ total_initial_loan_amount' = SumLoans(tracks')
    /\ UNCHANGED ret

(* mortgage.tracks[0].initial_loan_amount = x, as the sweep of              *)
(* plot_irr_vs_initial_equity_percentage does: the object at position 0 is *)
(* written, and total_initial_loan_amount, set by __init__, is not.        *)
SetFirstInitialLoanAmount(x) ==
    /\ ret = Idle
    /\ tracks[1].initial_loan_amount # x
    /\ tracks' = [j \in 1..Len(tracks) |->
                    IF tracks[j].obj = tracks[1].obj
                    THEN [tracks[j] EXCEPT !.initial_loan_amount = x]
                    ELSE tracks[j]]
    /\ UNCHANGED <<total_initial_loan_amount, ret>>

(* pipeline.get_tracks_percentages_dic() *)
GetTracksPercentagesDic ==
    /\ ret = Idle
    /\ ret' = [op |-> "get_tracks_percentages_dic",
               value |-> GetTracksPercentagesDicOf(tracks, total_initial_loan_amount)]
    /\ UNCHANGED <<tracks, total_initial_loan_amount>>

(* pipeline.calculate_weighted_average_interest_rates() *)
CalculateWeightedAverageInterestRates ==
    /\ ret = Idle
    /\ ret' = [op |-> "calculate_weighted_average_interest_rates",
               value |-> WeightedAverageInterestRates(tracks, total_initial_loan_amount)]
    /\ UNCHANGED <<tracks, total_initial_loan_amount>>

(* pipeline.calculate_normalize_resource_allocation() *)
CalculateNormalizeResourceAllocation ==
    /\ ret = Idle
    /\ ret' = [op |-> "calculate_normalize_resource_allocation",
               value |-> NormalizeResourceAllocation(tracks)]
    /\ UNCHANGED <<tracks, total_initial_loan_amount>>

(* pipeline.calculate_loan_yearly_irr(): the cash flow handed to npf.irr, *)
(* of which the returned rate is a function.                               *)
CalculateLoanYearlyIrr ==
    /\ ret = Idle
    /\ \E scheds \in {Schedules(tracks)} :
          ret' = [op |-> "calculate_loan_yearly_irr",
                  status |-> SchedulesStatus(scheds),
                  monthly_cash_flow |->
                      IF SchedulesStatus(scheds) = "ok"
                      THEN <<FromInt(-total_initial_loan_amount)>>
                               \o PipelineMonthlyPayments(scheds)
                      ELSE <<>>]
    /\ UNCHANGED <<tracks, total_initial_loan_amount>>

(* pipeline.calculate_linked_index_payment() *)
CalculateLinkedIndexPayment ==
    /\ ret = Idle
    /\ \E scheds \in {Schedules(tracks)} :
          ret' = [op |-> "calculate_linked_index_payment",
                  status |-> SchedulesStatus(scheds),
                  value |->
                      IF SchedulesStatus(scheds) = "ok"
                      THEN RSub(RSub(GetTotalPayment(scheds),
                                     RSum(PipelineInterestPayments(scheds))),
                                FromInt(total_initial_loan_amount))
                      ELSE Zero]
    /\ UNCHANGED <<tracks, total_initial_loan_amount>>

InitShares ==
    \/ \E t \in ShareTrackDomain : Construct(<<WithObject(t, 1)>>)
    \/ \E t1 \in ShareTrackDomain, t2 \in ShareTrackDomain :
          Construct(<<WithObject(t1, 1), WithObject(t2, 2)>>)
    \/ \E t \in ShareTrackDomain : Construct(<<WithObject(t, 1), WithObject(t, 1)>>)

NextShares ==
    \/ \E x \in SweepLoanAmounts : SetFirstInitialLoanAmount(x)
    \/ GetTracksPercentagesDic
    \/ CalculateWeightedAverageInterestRates
    \/ CalculateNormalizeResourceAllocation
    \/ CalculateLoanYearlyIrr
    \/ CalculateLinkedIndexPayment
    \/ Return

SpecShares == InitShares /\ [][NextShares]_vars

-----------------------------------------------------------------------------
(* Properties *)

IsSchedule == ret.op = "schedule" /\ ret.status = "ok"

IsFee == ret.op = "calculate_early_payment_fee"

ValidFeeArguments == ret.num_of_months >= 0 /\ ~RLess(ret.rate, Zero)

Last(seq) == seq[Len(seq)]

RAbs(x) == <<Abs(x[1]), x[2]>>

RLeq(x, y) == ~RLess(y, x)

(* C1: in every period of a track's schedule, interest-only or amortizing, *)
(* the recorded monthly payment equals the recorded principal payment plus *)
(* the recorded interest payment.                                          *)
C1_PaymentIsPrincipalPlusInterest ==
    IsSchedule =>
        \A k \in 1..Len(ret.monthly_payments) :
            ret.monthly_payments[k] =
                RAdd(ret.principal_payments[k], ret.interest_payments[k])

(* C1 witness: a schedule with an interest-only month followed by an       *)
(* amortizing month that pays both principal and interest.                 *)
C1_Witness ==
    /\ IsSchedule
    /\ tracks[ret.track].interest_only_period >= 1
    /\ \E k \in 1..Len(ret.monthly_payments) :
          /\ k > tracks[ret.track].interest_only_period
          /\ ret.principal_payments[k] # Zero
          /\ ret.interest_payments[k] # Zero

(* C2: for a track whose linked_index is all zero and whose                *)
(* interest_only_period lies in 0..num_payments, the last remaining        *)
(* balance is 0 within the rounding tolerance (one cent per period).       *)
C2_FinalBalanceZero ==
    ( /\ IsSchedule
      /\ ListVal(tracks[ret.track].linked_index) = Zero
      /\ tracks[ret.track].interest_only_period >= 0
      /\ tracks[ret.track].interest_only_period <= tracks[ret.track].num_payments )
    => RLeq(RAbs(Last(ret.remaining_balances)),
            Rat(tracks[ret.track].num_payments, 100))

(* C3: the four schedule sequences of a track have the same length, and    *)
(* that length is num_payments.                                            *)
C3_ScheduleLengthIsNumPayments ==
    IsSchedule =>
        /\ Len(ret.principal_payments) = tracks[ret.track].num_payments
        /\ Len(ret.interest_payments) = tracks[ret.track].num_payments
        /\ Len(ret.monthly_payments) = tracks[ret.track].num_payments
        /\ Len(ret.remaining_balances) = tracks[ret.track].num_payments

(* The series of a track's schedule that a pipeline series call adds up. *)
TrackSeries(op, sched) ==
    CASE op = "get_principal_payments" -> sched.principal_payments
      [] op = "get_interest_payments" -> sched.interest_payments
      [] op = "get_monthly_payments" -> sched.monthly_payments
      [] op = "get_remain_balances" -> sched.remaining_balances

IsSeries ==
    /\ ret.op \in {"get_principal_payments", "get_interest_payments",
                   "get_monthly_payments", "get_remain_balances"}
    /\ ret.status = "ok"

EntryOrZero(seq, k) == IF k <= Len(seq) THEN seq[k] ELSE Zero

RECURSIVE SumOfTracksAt(_, _, _)
SumOfTracksAt(op, ts, k) ==
    IF Len(ts) = 0 THEN Zero
    ELSE RAdd(EntryOrZero(TrackSeries(op, CalculatePayments(Head(ts))), k),
              SumOfTracksAt(op, Tail(ts), k))

(* C4: each monthly pipeline series has the length get_num_of_payments()   *)
(* and its entry at month k is the sum over the tracks of the track's      *)
(* entry at month k, a track with a shorter schedule contributing 0.       *)
C4_SeriesIsZeroPaddedSum ==
    IsSeries =>
        /\ Len(ret.value) = GetNumOfPayments(tracks)
        /\ \A k \in 1..Len(ret.value) :
              ret.value[k] = SumOfTracksAt(ret.op, tracks, k)

(* C5: for a pipeline of two tracks of equal length with no index linkage, *)
(* get_monthly_payments()[k] is the sum of the two tracks' monthly         *)
(* payments at k.                                                          *)
C5_PipelinePaymentIsSumOfTwo ==
    ( /\ ret.op = "get_monthly_payments"
      /\ ret.status = "ok"
      /\ Len(tracks) = 2
      /\ tracks[1].num_payments = tracks[2].num_payments
      /\ tracks[1].interest_only_period <= tracks[1].num_payments
      /\ tracks[2].interest_only_period <= tracks[2].num_payments
      /\ ListVal(tracks[1].linked_index) = Zero
      /\ ListVal(tracks[2].linked_index) = Zero )
    => \A k \in 1..Len(ret.value) :
          ret.value[k] = RAdd(CalculatePayments(tracks[1]).monthly_payments[k],
                              CalculatePayments(tracks[2]).monthly_payments[k])

(* C6: a fee calculation called with a negative num_of_months or a         *)
(* negative reference rate raises ValueError before any schedule or NPV    *)
(* computation, whatever the track variant.                                *)
C6_NegativeArgumentsRaise ==
    (IsFee /\ ~ValidFeeArguments) =>
        (ret.status = "ValueError" /\ ret.computed = {})

(* C7: an Eligibility or Prime track returns a fee of exactly 0 for every  *)
(* num_of_months >= 0 and every reference rate >= 0.                       *)
C7_ExemptVariantsReturnZero ==
    ( /\ IsFee
      /\ tracks[ret.track].cls \in {"Eligibility", "Prime"}
      /\ ValidFeeArguments )
    => (ret.status = "ok" /\ ret.value = 0)

(* C7 witness: an index-linked Eligibility track at a nonzero rate, asked  *)
(* beyond its term with a reference rate different from its own.           *)
C7_Witness ==
    /\ IsFee
    /\ tracks[ret.track].cls = "Eligibility"
    /\ ListVal(tracks[ret.track].linked_index) # Zero
    /\ tracks[ret.track].interest_rate # Zero
    /\ ret.num_of_months > tracks[ret.track].num_payments
    /\ RLess(Zero, ret.rate)
    /\ ret.rate # tracks[ret.track].interest_rate
    /\ ret.status = "ok"
    /\ ret.value = 0

C9_NoFeeAfterTerm ==
    ( /\ IsFee
      /\ tracks[ret.track].cls = "ConstantNotLinked"
      /\ ValidFeeArguments
      /\ ret.num_of_months >= tracks[ret.track].num_payments )
    => (ret.status = "ok" /\ ret.value = 0)

FeeAt(m) == TrackFee(tracks[ret.track], m, ret.rate).value

(* C10 as stated: for a ConstantNotLinked track and a fixed reference      *)
(* rate, fee(m2) <= fee(m1) for all 0 <= m1 <= m2 <= num_payments.         *)
C10_FeeNonIncreasing ==
    ( /\ IsFee
      /\ tracks[ret.track].cls = "ConstantNotLinked"
      /\ ValidFeeArguments
      /\ ret.num_of_months <= tracks[ret.track].num_payments )
    => \A m1 \in 0..ret.num_of_months : ret.value <= FeeAt(m1)

(* C10 amended: the same, for a reference rate not above the lower of the  *)
(* track's interest_rate and average_interest_when_taken.                  *)
C10_FeeNonIncreasingBelowLoanRate ==
    ( /\ IsFee
      /\ tracks[ret.track].cls = "ConstantNotLinked"
      /\ ValidFeeArguments
      /\ ret.num_of_months <= tracks[ret.track].num_payments
      /\ RLeq(ret.rate, RMin(tracks[ret.track].interest_rate,
                             tracks[ret.track].average_interest_when_taken)) )
    => \A m1 \in 0..ret.num_of_months : ret.value <= FeeAt(m1)

(* C10 witness: a fee that has shrunk from its value at month 0 and is     *)
(* still positive, at a reference rate below the track's rates.            *)
C10_Witness ==
    /\ IsFee
    /\ tracks[ret.track].cls = "ConstantNotLinked"
    /\ ValidFeeArguments
    /\ ret.num_of_months >= 1
    /\ ret.num_of_months < tracks[ret.track].num_payments
    /\ RLess(ret.rate, RMin(tracks[ret.track].interest_rate,
                            tracks[ret.track].average_interest_when_taken))
    /\ ret.value > 0
    /\ ret.value < FeeAt(0)

(* C11: when the reference rate equals both the track's                    *)
(* average_interest_when_taken and its interest_rate, the fee of a         *)
(* ConstantNotLinked track is 0 for every num_of_months >= 0.              *)
C11_NoFeeWhenNothingMoved ==
    ( /\ IsFee
      /\ tracks[ret.track].cls = "ConstantNotLinked"
      /\ ret.num_of_months >= 0
      /\ ret.rate = tracks[ret.track].average_interest_when_taken
      /\ ret.rate = tracks[ret.track].interest_rate )
    => (ret.status = "ok" /\ ret.value = 0)

(* C11 witness: such a call at a nonzero rate in mid-term, payments still  *)
(* remaining to be discounted.                                             *)
C11_Witness ==
    /\ IsFee
    /\ tracks[ret.track].cls = "ConstantNotLinked"
    /\ ret.rate = tracks[ret.track].average_interest_when_taken
    /\ ret.rate = tracks[ret.track].interest_rate
    /\ RLess(Zero, ret.rate)
    /\ ret.num_of_months >= 1
    /\ ret.num_of_months < tracks[ret.track].num_payments
    /\ "npv" \in ret.computed
    /\ ret.value = 0

IsDiscount == ret.op = "calculate_discount_factor"

(* C12: with eligibility present the discount factor is 0.6 from 48       *)
(* months, 0.7 in 36..47, 0.8 in 24..35, 0.9 in 12..23, else 1.0; with     *)
(* eligibility absent 0.7 from 60 months, 0.8 in 36..59, else 1.0; it is   *)
(* non-increasing in months and lies in [0.6, 1.0].                        *)
C12_DiscountFactorTable ==
    IsDiscount =>
        LET m == ret.num_of_months
            f == ret.value
        IN  /\ ret.eligibility_present =>
                  /\ (m >= 48) => f = <<3, 5>>
                  /\ (36 <= m /\ m < 48) => f = <<7, 10>>
                  /\ (24 <= m /\ m < 36) => f = <<4, 5>>
                  /\ (12 <= m /\ m < 24) => f = <<9, 10>>
                  /\ (m < 12) => f = <<1, 1>>
            /\ ~ret.eligibility_present =>
                  /\ (m >= 60) => f = <<7, 10>>
                  /\ (36 <= m /\ m < 60) => f = <<4, 5>>
                  /\ (m < 36) => f = <<1, 1>>
            /\ \A m1 \in DiscountMonths :
                  (m1 <= m) =>
                      RLeq(f, CalculateDiscountFactor(m1, ret.eligibility_present))
            /\ RLeq(<<3, 5>>, f)
            /\ RLeq(f, <<1, 1>>)

(* C12 witness: the factor asked exactly at a threshold, 36 months, with   *)
(* eligibility present.                                                    *)
C12_Witness ==
    /\ IsDiscount
    /\ ret.eligibility_present
    /\ ret.num_of_months = 36
    /\ ret.value = <<7, 10>>


-----------------------------------------------------------------------------
(* Pipeline early-payment fee *)

IsPipelineFee == ret.op = "pipeline.calculate_early_payment_fee"

(* The fee of the j-th track alone, at the rate given for its class. *)
OwnFee(j) == TrackFee(tracks[j], ret.num_of_months, ret.rates[tracks[j].cls]).value

RECURSIVE SumOfOwnFees(_)
SumOfOwnFees(j) == IF j = 0 THEN 0 ELSE OwnFee(j) + SumOfOwnFees(j - 1)

(* The factor applied to each track's fee and the products rounded apart. *)
RECURSIVE SumOfDiscountedOwnFees(_, _)
SumOfDiscountedOwnFees(f, j) ==
    IF j = 0 THEN 0
    ELSE RoundHalfEven(RMul(f, FromInt(OwnFee(j)))) + SumOfDiscountedOwnFees(f, j - 1)

(* C13: a pipeline fee call that returns gives round(f * S), S the sum of  *)
(* the tracks' own fees at that month, each at the rate of its class, and  *)
(* f the discount factor of the month, looked up with e true exactly when  *)
(* some track of the pipeline is an Eligibility track.                     *)
C13_PipelineFeeIsDiscountedSum ==
    (IsPipelineFee /\ ret.status = "ok") =>
        LET e == \E j \in 1..Len(tracks) : tracks[j].cls = "Eligibility"
            f == CalculateDiscountFactor(ret.num_of_months, e)
        IN  ret.value = RoundHalfEven(RMul(f, FromInt(SumOfOwnFees(Len(tracks)))))

(* A fee of three tracks, one of them Eligibility, at a month where the    *)
(* factor is below 1, two tracks owing a fee, and the factor applied to    *)
(* the sum giving another figure than applied to each fee.                 *)
C13_Witness ==
    /\ IsPipelineFee /\ ret.status = "ok"
    /\ Len(tracks) = 3
    /\ \E j \in 1..3 : tracks[j].cls = "Eligibility"
    /\ OwnFee(1) # 0 /\ OwnFee(2) # 0
    /\ CalculateDiscountFactor(ret.num_of_months, TRUE) # One
    /\ ret.value # SumOfDiscountedOwnFees(
                       CalculateDiscountFactor(ret.num_of_months, TRUE), 3)
    /\ ret.value # SumOfOwnFees(3)

-----------------------------------------------------------------------------
(* Annual series *)

AnnualOps ==
    {"get_annual_principal_payments", "get_annual_interest_payments",
     "get_annual_payments"}

IsAnnual == ret.op \in AnnualOps

(* The monthly series an annual series is taken from. *)
MonthlySeriesOf(op) ==
    CASE op = "get_annual_principal_payments" ->
            PipelinePrincipalPayments(Schedules(tracks))
      [] op = "get_annual_interest_payments" ->
            PipelineInterestPayments(Schedules(tracks))
      [] op = "get_annual_payments" ->
            PipelineMonthlyPayments(Schedules(tracks))

(* The sum of the entries of series at the positions lo..hi that exist. *)
SumBetween(series, lo, hi) ==
    RSum(SubSeq(series, lo, IF hi > Len(series) THEN Len(series) ELSE hi))

(* C14: on every pipeline an annual flow series is returned, with one      *)
(* entry for each group of 12 consecutive months of the monthly series,    *)
(* entry k being the sum of the group's months, so that the annual entries *)
(* add up to the total of the monthly series.                              *)
C14_AnnualSeriesGroupsMonths ==
    IsAnnual =>
        LET monthly == MonthlySeriesOf(ret.op)
        IN  /\ ret.status = "ok"
            /\ \A k \in 1..Len(ret.value) :
                  ret.value[k] = SumBetween(monthly, MONTHS_IN_YEAR * (k - 1) + 1,
                                            MONTHS_IN_YEAR * k)
            /\ RSum(ret.value) = RSum(monthly)

-----------------------------------------------------------------------------
(* Annual balances *)

IsAnnualBalances == ret.op = "get_annual_remain_balances"

(* C15: the annual balances are samples of the monthly pipeline balance,   *)
(* one for each year, the k-th being the balance at the end of year k,     *)
(* that is after payment 12 * k.                                           *)
C15_AnnualBalanceIsYearEndBalance ==
    (IsAnnualBalances /\ ret.status = "ok") =>
        LET balances == PipelineRemainBalances(Schedules(tracks))
        IN  \A k \in 1..Len(ret.value) :
               /\ MONTHS_IN_YEAR * k <= Len(balances)
               /\ ret.value[k] = balances[MONTHS_IN_YEAR * k]

-----------------------------------------------------------------------------
(* Shares of the pipeline *)

IsWeightedAverage == ret.op = "calculate_weighted_average_interest_rates"

(* interest_rate * initial_loan_amount / total_initial_loan_amount of the  *)
(* tracks at the positions 1..j of the pipeline's list, added up.          *)
RECURSIVE SumOfRateTerms(_)
SumOfRateTerms(j) ==
    IF j = 0 THEN Zero
    ELSE RAdd(RMul(tracks[j].interest_rate,
                   Rat(tracks[j].initial_loan_amount, total_initial_loan_amount)),
              SumOfRateTerms(j - 1))

(* C16: the weighted average rate is the sum, with one term for each track *)
(* of the pipeline, of interest_rate * initial_loan_amount /               *)
(* total_initial_loan_amount.                                              *)
C16_WeightedAverageOneTermPerTrack ==
    IsWeightedAverage => ret.value = SumOfRateTerms(Len(tracks))

IsPercentages == ret.op = "get_tracks_percentages_dic"

(* C17: after the construction and any writes of tracks[0]'s loan amount,  *)
(* every value of the percentages dictionary is between 0 and 1.           *)
C17_PercentagesBetweenZeroAndOne ==
    IsPercentages =>
        \A obj \in DOMAIN ret.value :
            RLeq(Zero, ret.value[obj]) /\ RLeq(ret.value[obj], One)

IsAllocation == ret.op = "calculate_normalize_resource_allocation"

(* C18: each track's share of the resource allocation is its initial       *)
(* monthly payment over the total of all tracks' initial monthly payments, *)
(* and the shares of all tracks sum to exactly 1.                          *)
C18_AllocationSharesSumToOne ==
    IsAllocation =>
        LET total == RSum([j \in 1..Len(tracks) |->
                              CalculateInitialMonthlyPayment(tracks[j])])
        IN  /\ \A j \in 1..Len(tracks) :
                  ret.value[tracks[j].obj] =
                      RDiv(CalculateInitialMonthlyPayment(tracks[j]), total)
            /\ RSum([j \in 1..Len(tracks) |-> ret.value[tracks[j].obj]]) = One

-----------------------------------------------------------------------------
(* Total cost of borrowing *)

IsTotalCost == ret.op = "calculate_total_cost_of_borrowing" /\ ret.status = "ok"

(* The interest of the first 12 * years months plus the pipeline fee at    *)
(* month 12 * years, at the rates of the dictionary.                       *)
ExitFigure(years, rates) ==
    RoundHalfEven(
        RAdd(RSum(SliceTo(PipelineInterestPayments(Schedules(tracks)), 12 * years)),
             FromInt(PipelineFee(tracks, 12 * years, rates).value)))

(* C19: a call with an exit horizon returns the interest of the first      *)
(* 12 * years_to_exit months plus the pipeline fee at that month, and the  *)
(* full-term figure is returned only by a call without an exit horizon.    *)
C19_ExitHorizonGivesExitFigure ==
    IsTotalCost =>
        /\ ret.years_to_exit.given =>
              /\ ret.figure = "exit"
              /\ ret.rates.given =>
                    ret.value = ExitFigure(ret.years_to_exit.val, ret.rates.val)
        /\ ret.figure = "full_term" => ~ret.years_to_exit.given

-----------------------------------------------------------------------------
(* Reads between writes *)

(* The four lists a read of track i returns when they are computed from    *)
(* the attributes t.                                                       *)
ReadsScheduleOf(r, t) ==
    LET p == CalculatePayments(t)
    IN  /\ r.status = p.err
        /\ r.principal_payments = p.principal_payments
        /\ r.interest_payments = p.interest_payments
        /\ r.monthly_payments = p.monthly_payments
        /\ r.remaining_balances = p.remaining_balances

(* C20: whatever writes of initial_loan_amount, interest_only_period and   *)
(* interest_rate came before it, a read of a track's schedule returns the  *)
(* schedule of the attribute values the track has at the read, and the     *)
(* read changes no attribute of the track.                                 *)
C20_ReadReflectsCurrentAttributes ==
    [][(ret = Idle /\ ret'.op = "schedule") =>
          /\ tracks' = tracks
          /\ ReadsScheduleOf(ret', tracks[ret'.track])]_vars

(* A schedule read from an Eligibility track, which is constructed with no *)
(* interest-only period, after its interest_only_period, loan amount and   *)
(* rate were rewritten: the first month repays no principal and bears the  *)
(* interest of the new amount at the new rate.                             *)
C20_Witness ==
    /\ ret.op = "schedule" /\ ret.status = "ok"
    /\ tracks[ret.track].cls = "Eligibility"
    /\ tracks[ret.track].interest_only_period = 1
    /\ tracks[ret.track].num_payments > 1
    /\ tracks[ret.track].interest_rate # tracks[ret.track].average_interest_when_taken
    /\ tracks[ret.track].initial_loan_amount # total_initial_loan_amount
    /\ ret.principal_payments[1] = Zero
    /\ ret.interest_payments[1] =
          Round2(RMul(FromInt(tracks[ret.track].initial_loan_amount),
                      RDiv(tracks[ret.track].interest_rate, FromInt(MONTHS_IN_YEAR))))
    /\ ret.interest_payments[1] # Zero

-----------------------------------------------------------------------------
(* The pipeline's total loan amount *)

IsIrr == ret.op = "calculate_loan_yearly_irr" /\ ret.status = "ok"

IsLinkedIndexPayment == ret.op = "calculate_linked_index_payment" /\ ret.status = "ok"

(* C21: total_initial_loan_amount is the sum of the tracks' loan amounts   *)
(* at construction and no later step changes it, a write of a track's      *)
(* loan amount included; the IRR cash flow opens with minus that total and *)
(* the linked-index payment subtracts it.                                  *)
C21_TotalIsConstructionTimeSum ==
    /\ total_initial_loan_amount = SumLoans(tracks)
    /\ [][/\ total_initial_loan_amount' = total_initial_loan_amount
          /\ (ret'.op = "calculate_loan_yearly_irr" /\ ret'.status = "ok") =>
                ret'.monthly_cash_flow[1] = FromInt(-total_initial_loan_amount)
          /\ (ret'.op = "calculate_linked_index_payment" /\ ret'.status = "ok") =>
                ret'.value =
                    RSub(RSub(GetTotalPayment(Schedules(tracks)),
                              RSum(PipelineInterestPayments(Schedules(tracks)))),
                         FromInt(total_initial_loan_amount))]_vars

(* An IRR cash flow computed after a track's loan amount was rewritten: it *)
(* opens with minus the total of the construction, which is no longer the  *)
(* sum of the tracks' amounts.                                             *)
C21_Witness ==
    /\ IsIrr
    /\ total_initial_loan_amount # SumLoans(tracks)
    /\ ret.monthly_cash_flow[1] = FromInt(-total_initial_loan_amount)
    /\ Len(tracks) = 2

-----------------------------------------------------------------------------
(* The forecasting drift *)

(* C22: in each amortizing period the annual rate is first multiplied by   *)
(* 1 + forecasting_interest_rate[period - 1] and the period's interest is  *)
(* charged at that drifted rate / 12 (stated for the first amortizing      *)
(* period, whose balance is known without the earlier ones); so a track    *)
(* with a nonzero forecasting entry and a nonzero rate has another         *)
(* schedule than the same track with an all-zero forecast.                 *)
C22_ForecastDriftsMonthlyRate ==
    ( /\ IsSchedule
      /\ tracks[ret.track].interest_rate # Zero
      /\ ListVal(tracks[ret.track].forecasting_interest_rate) # Zero
      /\ tracks[ret.track].interest_only_period >= 0
      /\ tracks[ret.track].interest_only_period < tracks[ret.track].num_payments )
    => LET t == tracks[ret.track]
           drifted == RMul(t.interest_rate,
                           RAdd(One, ListVal(t.forecasting_interest_rate)))
           balance == RMul(FromInt(t.initial_loan_amount),
                           RAdd(One, ListVal(t.linked_index)))
       IN  /\ ret.interest_payments[t.interest_only_period + 1] =
                 Round2(RMul(balance, RDiv(drifted, FromInt(MONTHS_IN_YEAR))))
           /\ ~ReadsScheduleOf(ret,
                  [t EXCEPT !.forecasting_interest_rate =
                                ConstList(DefaultIndexLen, Zero)])

-----------------------------------------------------------------------------
(* The interest-only months *)

(* C23: in each of the first interest_only_period months of a schedule the *)
(* principal payment is 0, the balance is the initial loan amount, the     *)
(* interest is round(balance * monthly rate, 2) and the payment is that    *)
(* interest; when interest_only_period < num_payments, month               *)
(* interest_only_period + 1 is the first pass of an amortization over      *)
(* num_payments - interest_only_period months, which brings the schedule   *)
(* to num_payments months.                                                 *)
C23_InterestOnlyMonths ==
    IsSchedule =>
        LET t == tracks[ret.track]
            iop == t.interest_only_period
            loan == FromInt(t.initial_loan_amount)
            interest == Round2(RMul(loan, MonthlyInterest(t)))
        IN  /\ Len(ret.monthly_payments) >= iop
            /\ \A k \in 1..iop :
                  /\ ret.principal_payments[k] = Zero
                  /\ ret.remaining_balances[k] = loan
                  /\ ret.interest_payments[k] = interest
                  /\ ret.monthly_payments[k] = interest
            /\ iop < t.num_payments =>
                  /\ Len(ret.monthly_payments) = iop + (t.num_payments - iop)
                  /\ \E m \in {AmortizingMonth(loan, MonthlyInterest(t),
                                               t.num_payments - iop,
                                               ListVal(t.linked_index))} :
                        /\ ret.principal_payments[iop + 1] = m.principal_payment
                        /\ ret.interest_payments[iop + 1] = m.interest_payment
                        /\ ret.monthly_payments[iop + 1] = m.monthly_payment
                        /\ ret.remaining_balances[iop + 1] = m.remaining_balance

(* A schedule with two interest-only months whose interest, 10 * (12/7) /  *)
(* 12, is not a whole number of cents, followed by an amortizing month.    *)
C23_Witness ==
    /\ IsSchedule
    /\ tracks[ret.track].interest_only_period = 2
    /\ tracks[ret.track].num_payments = 3
    /\ tracks[ret.track].interest_rate = <<12, 7>>
    /\ tracks[ret.track].initial_loan_amount = 10
    /\ ret.interest_payments[1] = <<143, 100>>
    /\ ret.principal_payments[2] = Zero
    /\ ret.remaining_balances[2] = FromInt(10)
    /\ ret.principal_payments[3] # Zero

-----------------------------------------------------------------------------
(* The sensitivity sweeps of SingleHouseModel, as far as they reach the    *)
(* pipeline: each is modelled when every calculate_annual_irr() of its     *)
(* loop returns, so that the loop runs to its last value; the figures go   *)
(* to the plot and nothing is returned.                                    *)

(* range(12) of plot_annual_irr_vs_mortgage_interest_only_period *)
SweepYears == 12

(* The last value of np.linspace(25, 100, ...) *)
LastEquityPercentage == 100

(* The pipelines a model is swept over: year-long tracks, an interest-only *)
(* year included.                                                          *)
SweepTrackDomain ==
    {ConstantNotLinked(r, n, a, NoRate, iop) :
        r \in PipelineRates, n \in Terms, a \in LoanAmounts,
        iop \in {0, MONTHS_IN_YEAR}}

(* plot_irr_vs_years_to_exit: years_to_exit is an attribute of the model,  *)
(* the pipeline is only read.                                              *)
PlotIrrVsYearsToExit ==
    /\ ret = Idle
    /\ ret' = [op |-> "plot_irr_vs_years_to_exit"]
    /\ UNCHANGED <<tracks, total_initial_loan_amount>>

(* real_estate_property.purchase_price of the swept model, in the units   *)
(* of the loan amounts.                                                    *)
PurchasePrices == {10 * k : k \in (MaxLoan + 1)..(MaxLoan + 2)}

(* plot_irr_vs_initial_equity_percentage: the last pass writes             *)
(* purchase_price * (1 - 100 / 100) into the object at position 0.         *)
PlotIrrVsInitialEquityPercentage(purchase_price) ==
    /\ ret = Idle
    /\ tracks' = [j \in 1..Len(tracks) |->
                    IF tracks[j].obj = tracks[1].obj
                    THEN [tracks[j] EXCEPT !.initial_loan_amount =
                              (purchase_price * (100 - LastEquityPercentage)) \div 100]
                    ELSE tracks[j]]
    /\ ret' = [op |-> "plot_irr_vs_initial_equity_percentage",
               purchase_price |-> purchase_price]
    /\ UNCHANGED total_initial_loan_amount

(* plot_annual_irr_vs_mortgage_interest_only_period: the last pass writes  *)
(* 11 * 12 into every track.                                               *)
PlotAnnualIrrVsMortgageInterestOnlyPeriod ==
    /\ ret = Idle
    /\ tracks' = [j \in 1..Len(tracks) |->
                    [tracks[j] EXCEPT !.interest_only_period =
                         (SweepYears - 1) * MONTHS_IN_YEAR]]
    /\ ret' = [op |-> "plot_annual_irr_vs_mortgage_interest_only_period"]
    /\ UNCHANGED total_initial_loan_amount

InitSweeps ==
    \/ \E t \in SweepTrackDomain : Construct(<<WithObject(t, 1)>>)
    \/ \E t1 \in SweepTrackDomain, t2 \in SweepTrackDomain :
          Construct(<<WithObject(t1, 1), WithObject(t2, 2)>>)

NextSweeps ==
    \/ PlotIrrVsYearsToExit
    \/ \E p \in PurchasePrices : PlotIrrVsInitialEquityPercentage(p)
    \/ PlotAnnualIrrVsMortgageInterestOnlyPeriod
    \/ Return

SpecSweeps == InitSweeps /\ [][NextSweeps]_vars

(* C24: in every reachable state every track has                           *)
(* 0 <= interest_only_period <= num_payments, after the interest-only      *)
(* sweep too, so that the number of amortizing periods is never negative.  *)
C24_InterestOnlyPeriodWithinTerm ==
    \A i \in 1..Len(tracks) :
        /\ 0 <= tracks[i].interest_only_period
        /\ tracks[i].interest_only_period <= tracks[i].num_payments
        /\ tracks[i].num_payments - tracks[i].interest_only_period >= 0

SweepOps ==
    {"plot_irr_vs_years_to_exit", "plot_irr_vs_initial_equity_percentage",
     "plot_annual_irr_vs_mortgage_interest_only_period"}

(* C30: a sensitivity sweep leaves every track's initial_loan_amount and   *)
(* interest_only_period as they were before it (the part of the claim      *)
(* that concerns the pipeline).                                            *)
C30_SweepsRestoreTrackAttributes ==
    [][(ret = Idle /\ ret'.op \in SweepOps) =>
          \A j \in 1..Len(tracks) :
              /\ tracks'[j].initial_loan_amount = tracks[j].initial_loan_amount
              /\ tracks'[j].interest_only_period = tracks[j].interest_only_period]_vars

-----------------------------------------------------------------------------
(* The segmentations of a pipeline by linkage and by interest type *)

(* LinkageType and InterestType: each tag's value is a set of track        *)
(* classes.                                                                *)
LinkageType ==
    [Linked |-> {"ChangeLinked", "ConstantLinked", "Eligibility"},
     NotLinked |-> {"ChangeNotLinked", "ConstantNotLinked"},
     Prime |-> {"Prime"}]

InterestType ==
    [Constant |-> {"ConstantLinked", "ConstantNotLinked"},
     NotConstant |-> {"Eligibility", "ChangeLinked", "ChangeNotLinked"},
     Prime |-> {"Prime"}]

(* The Python objects the membership test compares: a class, and a track   *)
(* instance, which has the identity hash and equality of object.           *)
ClassObject(name) == [class |-> name]

InstanceObject(track) == [instance |-> track.obj]

(* track in <a set of classes> *)
TrackInClasses(track, classes) ==
    \E c \in classes : ClassObject(c) = InstanceObject(track)

(* any(isinstance(track, class_type) for class_type in classes) *)
IsInstanceOfAny(track, classes) == \E c \in classes : track.cls = c

(* sum([percentage for track, percentage in dic.items() if keep(track)]),  *)
(* kept being the objects that pass the condition.                         *)
SumOfKept(dic, kept) == SumOverItems([obj \in kept |-> dic[obj]])

(* MortgagePipeline.calculate_index_linkage_segmentation *)
IndexLinkageSegmentation(ts, total) ==
    LET dic == GetTracksPercentagesDicOf(ts, total)
    IN  [status |-> "ok",
         value |-> [tag \in DOMAIN LinkageType |->
                       SumOfKept(dic, {obj \in DOMAIN dic :
                           TrackInClasses(TrackOf(ts, obj), LinkageType[tag])})]]

(* MortgagePipeline.calculate_interest_type_segmentation: the condition of *)
(* the third comprehension is track in any(...), a membership test on a    *)
(* bool, which raises TypeError at the first item of the dictionary.       *)
InterestTypeSegmentation(ts, total) ==
    LET dic == GetTracksPercentagesDicOf(ts, total)
        constant == SumOfKept(dic, {obj \in DOMAIN dic :
                        IsInstanceOfAny(TrackOf(ts, obj), InterestType.Constant)})
        not_constant == SumOfKept(dic, {obj \in DOMAIN dic :
                        IsInstanceOfAny(TrackOf(ts, obj), InterestType.NotConstant)})
    IN  IF DOMAIN dic # {}
        THEN [status |-> "TypeError", value |-> <<>>]
        ELSE [status |-> "ok",
              value |-> [Constant |-> constant, NotConstant |-> not_constant,
                         Prime |-> Zero]]

(* A track of a class the enumerations do not list: a subclass of          *)
(* MortgageTrack of the caller's own.                                      *)
UnregisteredTrack(interest_rate, num_payments, initial_loan_amount) ==
    MortgageTrack("Unregistered", interest_rate, num_payments, initial_loan_amount,
                  NoList, NoList, NoRate, 0, 0)

SegmentationTrackDomain ==
    UNION {
        {ConstantNotLinked(r, MaxPayments, a, NoRate, 0) :
            r \in PipelineRates, a \in LoanAmounts},
        {Eligibility(r, MaxPayments, a, NoList, NoRate) :
            r \in PipelineRates, a \in LoanAmounts},
        {Prime(r, MaxPayments, a, NoList, NoRate, 0) :
            r \in PipelineRates, a \in LoanAmounts},
        {UnregisteredTrack(r, MaxPayments, a) :
            r \in PipelineRates, a \in LoanAmounts}
    }

(* pipeline.calculate_index_linkage_segmentation() *)
CalculateIndexLinkageSegmentation ==
    /\ ret = Idle
    /\ \E r \in {IndexLinkageSegmentation(tracks, total_initial_loan_amount)} :
          ret' = [op |-> "calculate_index_linkage_segmentation",
                  status |-> r.status, value |-> r.value]
    /\ UNCHANGED <<tracks, total_initial_loan_amount>>

(* pipeline.calculate_interest_type_segmentation() *)
CalculateInterestTypeSegmentation ==
    /\ ret = Idle
    /\ \E r \in {InterestTypeSegmentation(tracks, total_initial_loan_amount)} :
          ret' = [op |-> "calculate_interest_type_segmentation",
                  status |-> r.status, value |-> r.value]
    /\ UNCHANGED <<tracks, total_initial_loan_amount>>

InitSegmentation ==
    \/ Construct(<<>>)
    \/ \E t \in SegmentationTrackDomain : Construct(<<WithObject(t, 1)>>)
    \/ \E t1 \in SegmentationTrackDomain, t2 \in SegmentationTrackDomain :
          Construct(<<WithObject(t1, 1), WithObject(t2, 2)>>)

NextSegmentation ==
    \/ CalculateIndexLinkageSegmentation
    \/ CalculateInterestTypeSegmentation
    \/ Return

SpecSegmentation == InitSegmentation /\ [][NextSegmentation]_vars

IsSegmentation ==
    ret.op \in {"calculate_index_linkage_segmentation",
                "calculate_interest_type_segmentation"}

RegisteredClasses ==
    UNION {LinkageType[tag] : tag \in DOMAIN LinkageType}
        \cup UNION {InterestType[tag] : tag \in DOMAIN InterestType}

(* The shares initial_loan_amount / total_initial_loan_amount of the       *)
(* tracks at the positions 1..j whose class is one of classes, added up.   *)
RECURSIVE SumOfSharesOf(_, _)
SumOfSharesOf(classes, j) ==
    IF j = 0 THEN Zero
    ELSE RAdd(IF tracks[j].cls \in classes
              THEN Rat(tracks[j].initial_loan_amount, total_initial_loan_amount)
              ELSE Zero,
              SumOfSharesOf(classes, j - 1))

(* C25: a segmentation of a pipeline that holds a track of a class         *)
(* registered in no tag fails, rather than returning figures in which the  *)
(* track counts for nothing.                                               *)
C25_UnregisteredVariantFails ==
    ( /\ IsSegmentation
      /\ \E j \in 1..Len(tracks) : tracks[j].cls \notin RegisteredClasses )
    => ret.status # "ok"

(* C26: for a pipeline of registered classes, each segmentation returns    *)
(* for every tag the sum of the shares of the tracks of the tag's classes, *)
(* and the values over the tags add up to the total of the shares.         *)
C26_SegmentationSumsShares ==
    ( /\ IsSegmentation
      /\ Len(tracks) > 0
      /\ \A j \in 1..Len(tracks) : tracks[j].cls \in RegisteredClasses )
    => /\ ret.status = "ok"
       /\ LET tags == IF ret.op = "calculate_index_linkage_segmentation"
                      THEN LinkageType ELSE InterestType
          IN  /\ \A tag \in DOMAIN tags :
                    ret.value[tag] = SumOfSharesOf(tags[tag], Len(tracks))
              /\ SumOverItems(ret.value) =
                    SumOfSharesOf(RegisteredClasses, Len(tracks))

-----------------------------------------------------------------------------
(* The default index sequences and the term *)

(* Months by which a term overruns the default sequences. *)
MaxOverrun == 1

(* The positions the amortizing loop of _calculate_payments reads in       *)
(* linked_index and forecasting_interest_rate: period - 1 for period in    *)
(* range(1, num_payments - interest_only_period + 1).                      *)
IndexReads(track) ==
    {period - 1 : period \in 1..(track.num_payments - track.interest_only_period)}

(* Whether _calculate_payments ends or raises IndexError at one of its     *)
(* reads; the payments themselves are left out.                            *)
ScheduleStatus(track) ==
    IF \E k \in IndexReads(track) :
          ~InRange(track.linked_index, k) \/ ~InRange(track.forecasting_interest_rate, k)
    THEN "IndexError"
    ELSE "ok"

(* Terms about the length of the default sequences. *)
DefaultTerms == (DefaultIndexLen - 1)..(DefaultIndexLen + MaxOverrun)

(* Tracks constructed without linked_index and forecasting_interest_rate. *)
DefaultListTrackDomain ==
    UNION {
        {ConstantNotLinked(r, n, a, NoRate, iop) :
            r \in PipelineRates, n \in DefaultTerms, a \in LoanAmounts,
            iop \in {0, 1, MONTHS_IN_YEAR}},
        {Eligibility(r, n, a, NoList, NoRate) :
            r \in PipelineRates, n \in DefaultTerms, a \in LoanAmounts},
        {Prime(r, n, a, NoList, NoRate, iop) :
            r \in PipelineRates, n \in DefaultTerms, a \in LoanAmounts,
            iop \in {0, 1, MONTHS_IN_YEAR}}
    }

(* A read of track i's schedule, as far as its outcome goes. *)
ReadScheduleStatus(i) ==
    /\ ret = Idle
    /\ ret' = [op |-> "schedule_status", track |-> i,
               status |-> ScheduleStatus(tracks[i])]
    /\ UNCHANGED <<tracks, total_initial_loan_amount>>

(* The average_interest_when_taken arguments of a constructor call: none, *)
(* a positive rate, or 0.                                                  *)
PassedAverageRates == AverageRates \cup {Some(Zero)}

(* ConstantNotLinked(interest_rate, num_payments, initial_loan_amount,      *)
(* average_interest_when_taken=...): the argument and the track it gives.  *)
NewTrack(interest_rate, average_interest_when_taken) ==
    /\ ret = Idle
    /\ ret' = [op |-> "__init__",
               interest_rate |-> interest_rate,
               average_interest_when_taken |-> average_interest_when_taken,
               track |-> ConstantNotLinked(interest_rate, MaxPayments, 10 * MaxLoan,
                                           average_interest_when_taken, 0)]
    /\ UNCHANGED <<tracks, total_initial_loan_amount>>

InitDefaults ==
    \/ \E t \in DefaultListTrackDomain : Construct(<<t>>)
    \/ \E t1 \in DefaultListTrackDomain, t2 \in DefaultListTrackDomain :
          t1.cls # t2.cls /\ t1.interest_rate = Zero /\ Construct(<<t1, t2>>)

NextDefaults ==
    \/ \E i \in 1..Len(tracks) : ReadScheduleStatus(i)
    \/ \E r \in TrackRates, avg \in PassedAverageRates : NewTrack(r, avg)
    \/ Return

SpecDefaults == InitDefaults /\ [][NextDefaults]_vars

(* C27: the all-zero sequences a track gets when it is constructed without *)
(* linked_index and forecasting_interest_rate are at least num_payments    *)
(* long, so that a read of the schedule never ends in IndexError.          *)
C27_DefaultsCoverTerm ==
    ret.op = "schedule_status" =>
        /\ tracks[ret.track].linked_index.len >= tracks[ret.track].num_payments
        /\ tracks[ret.track].forecasting_interest_rate.len >= tracks[ret.track].num_payments
        /\ ret.status = "ok"

(* C28: a track's average_interest_when_taken is the value passed to the   *)
(* constructor whenever one is passed, 0 included, and is interest_rate    *)
(* when none is passed.                                                    *)
C28_AverageInterestIsPassedValue ==
    ret.op = "__init__" =>
        ret.track.average_interest_when_taken =
            IF ret.average_interest_when_taken = NoRate
            THEN ret.interest_rate
            ELSE ret.average_interest_when_taken.val

-----------------------------------------------------------------------------
(* The annual cash flow of an investment model.  The model's attributes    *)
(* and the figures its other methods return (rent, operating expenses,     *)
(* sale price, selling expenses, capital-gain tax, closing costs) are the  *)
(* fields of a record m.                                                   *)

(* Years to exit of the investment models. *)
MaxExitYears == 2

(* [v] * n *)
Repeat(n, v) == [k \in 1..n |-> v]

(* round((equity_required_by_percentage / 100) * purchase_price) *)
EquityForHousePurchase(m) ==
    RoundHalfEven(Rat(m.equity_required_by_percentage * m.purchase_price, 100))

(* SingleFromConstructorIL.calculate_constructor_index_linked_compensation *)
ConstructorIndexLinkedCompensation(m) ==
    IF m.years_until_key_reception <= 0 THEN 0
    ELSE LET remain_balance_for_purchase ==
                 RMul(FromInt(m.purchase_price),
                      RSub(One, RDiv(RMul(FromInt(m.equity_required_by_percentage),
                                          m.contractor_payment_distribution[1]),
                                     FromInt(100))))
             remain_balance_linked_amount == RMul(<<2, 5>>, remain_balance_for_purchase)
         IN  RoundHalfEven(RMul(remain_balance_linked_amount,
                 RSub(RPow(RAdd(One, Rat(m.construction_input_index_annual_growth, 100)),
                           m.years_until_key_reception),
                      One)))

(* calculate_equity_payments: of SingleHouseModel, and as                  *)
(* SingleFromConstructorIL overrides it.                                   *)
EquityPayments(m) ==
    IF m.kind = "SingleFromConstructorIL"
    THEN LET last == m.years_until_key_reception + 1
             spread == [i \in 1..last |->
                           RoundHalfEven(RMul(FromInt(EquityForHousePurchase(m)),
                                              m.contractor_payment_distribution[i]))]
         IN  [i \in 1..last |->
                 spread[i] + (IF i = 1 THEN m.closing_costs ELSE 0)
                           + (IF i = last THEN ConstructorIndexLinkedCompensation(m) ELSE 0)]
    ELSE <<m.closing_costs + EquityForHousePurchase(m)>>

(* calculate_annual_revenue_distribution: of SingleHouseModel, and as      *)
(* SingleFromConstructorIL overrides it.                                   *)
AnnualRevenueDistribution(m) ==
    IF m.kind = "SingleFromConstructorIL"
    THEN Repeat(m.years_until_key_reception, 0)
            \o Repeat(m.years_to_exit - m.years_until_key_reception, m.annual_rent_income)
            \o <<m.sale_price>>
    ELSE Repeat(m.years_to_exit, m.annual_rent_income) \o <<m.sale_price>>

(* calculate_mortgage_remain_balance_in_exit: SingleHouseModel reads the   *)
(* annual balances at years_to_exit, SingleFromConstructorIL the monthly   *)
(* ones at (years_to_exit - years_until_key_reception) * 12.               *)
MortgageRemainBalanceInExit(m, ts, scheds) ==
    IF GetNumOfPayments(ts) <= m.years_to_exit * MONTHS_IN_YEAR THEN 0
    ELSE IF m.kind = "SingleFromConstructorIL"
    THEN RoundHalfEven(PipelineRemainBalances(scheds)[
             (m.years_to_exit - m.years_until_key_reception) * MONTHS_IN_YEAR + 1])
    ELSE RoundHalfEven(SampleEveryTwelfth(PipelineRemainBalances(scheds))[
             m.years_to_exit + 1])

(* [a + b + c for a, b, c in zip(x, y, z)] *)
ZipSum(x, y, z) ==
    LET n == IF Len(x) <= Len(y) /\ Len(x) <= Len(z) THEN Len(x)
             ELSE IF Len(y) <= Len(z) THEN Len(y) ELSE Len(z)
    IN  [k \in 1..n |-> RAdd(RAdd(x[k], y[k]), z[k])]

Ints(seq) == [k \in 1..Len(seq) |-> FromInt(seq[k])]

(* calculate_annual_expenses_distribution of SingleHouseSecondHandIL and   *)
(* of SingleFromConstructorIL (for the former years_until_key_reception    *)
(* is 0, which makes the two bodies the same list expressions).            *)
AnnualExpensesDistribution(m, ts) ==
    Only({
        LET key == IF m.kind = "SingleFromConstructorIL"
                   THEN m.years_until_key_reception ELSE 0
            annual_payments == ReshapeSum(PipelineMonthlyPayments(scheds))
        IN  IF SchedulesStatus(scheds) # "ok"
            THEN [status |-> SchedulesStatus(scheds), value |-> <<>>, at_exit |-> 0]
            ELSE IF annual_payments.status # "ok"
            THEN [status |-> annual_payments.status, value |-> <<>>, at_exit |-> 0]
            ELSE Only({
                IF fee.status # "ok"
                THEN [status |-> fee.status, value |-> <<>>, at_exit |-> 0]
                ELSE LET operating ==
                             Ints([i \in 1..m.years_to_exit |->
                                      IF i - 1 < key THEN 0
                                      ELSE m.annual_operating_expenses] \o <<0>>)
                         mortgage ==
                             Ints(Repeat(key, 0))
                                 \o SliceTo(annual_payments.value, m.years_to_exit - key)
                                 \o <<Zero>>
                         equity ==
                             Ints(EquityPayments(m) \o Repeat(m.years_to_exit - key, 0))
                         expenses == ZipSum(equity, mortgage, operating)
                         at_exit ==
                             m.selling_expenses + m.capital_gain_tax + fee.value
                                 + MortgageRemainBalanceInExit(m, ts, scheds)
                     IN  [status |-> "ok",
                          value |-> [expenses EXCEPT ![Len(expenses)] =
                                        RAdd(@, FromInt(at_exit))],
                          at_exit |-> at_exit] :
                fee \in {PipelineFee(ts, MONTHS_IN_YEAR * m.years_to_exit,
                                     m.average_interest_in_exit)}}) :
        scheds \in {Schedules(ts)}})

(* SingleHouseModel.calculate_annual_cash_flow_distribution *)
AnnualCashFlowDistribution(m, ts) ==
    Only({
        IF expenses.status # "ok" THEN expenses
        ELSE LET revenue == Ints(AnnualRevenueDistribution(m))
                 n == IF Len(revenue) <= Len(expenses.value)
                      THEN Len(revenue) ELSE Len(expenses.value)
             IN  [status |-> "ok",
                  value |-> [k \in 1..n |->
                                RoundHalfEven(RSub(revenue[k], expenses.value[k]))],
                  at_exit |-> expenses.at_exit] :
        expenses \in {AnnualExpensesDistribution(m, ts)}})

(* The reference rates at exit (average_interest_in_exit), by track class. *)
ExitRateDicts ==
    {("ConstantNotLinked" :> a) @@ ("Eligibility" :> Zero) : a \in {Zero, <<12, 1>>}}

(* The investment models asked for their cash flow: a second-hand house,   *)
(* and a house bought from the constructor with the key received at once   *)
(* or after a year, half of the equity paid at each end.                   *)
InvestmentModels ==
    {[kind |-> kind,
      years_to_exit |-> y,
      years_until_key_reception |-> key,
      contractor_payment_distribution |->
          IF key = 0 THEN <<One>> ELSE <<<<1, 2>>, <<1, 2>>>>,
      construction_input_index_annual_growth |-> 100,
      equity_required_by_percentage |-> 25,
      purchase_price |-> 100,
      annual_rent_income |-> 12,
      annual_operating_expenses |-> 3,
      sale_price |-> 1000,
      selling_expenses |-> 50,
      capital_gain_tax |-> 70,
      closing_costs |-> 5,
      average_interest_in_exit |-> rates] :
        kind \in {"SingleHouseSecondHandIL", "SingleFromConstructorIL"},
        y \in 0..MaxExitYears, key \in {0, 1}, rates \in ExitRateDicts}

(* model.calculate_annual_cash_flow_distribution() of a model m whose      *)
(* mortgage is the pipeline.                                               *)
CalculateAnnualCashFlowDistribution(m) ==
    /\ ret = Idle
    /\ m.years_until_key_reception <= m.years_to_exit
    /\ m.kind = "SingleHouseSecondHandIL" => m.years_until_key_reception = 0
    /\ \E r \in {AnnualCashFlowDistribution(m, tracks)} :
          ret' = [op |-> "calculate_annual_cash_flow_distribution", model |-> m,
                  status |-> r.status, value |-> r.value, at_exit |-> r.at_exit]
    /\ UNCHANGED <<tracks, total_initial_loan_amount>>

InitCashFlow ==
    \/ \E t \in LongTrackDomain : Construct(<<t>>)
    \/ \E t1 \in LongTrackDomain, t2 \in LongTrackDomain : Construct(<<t1, t2>>)

NextCashFlow ==
    \/ \E m \in InvestmentModels : CalculateAnnualCashFlowDistribution(m)
    \/ Return

SpecCashFlow == InitCashFlow /\ [][NextCashFlow]_vars

IsCashFlow ==
    ret.op = "calculate_annual_cash_flow_distribution" /\ ret.status = "ok"

(* C29: the annual cash flow of either investment model has                *)
(* years_to_exit + 1 entries whatever the mortgage's term, and its last    *)
(* entry is the sale price less the selling expenses, the capital-gain     *)
(* tax, the early-repayment fee and the remaining mortgage balance (stated *)
(* for an exit after the key's year, when no equity falls in the last      *)
(* year).                                                                  *)
C29_CashFlowHasExitYearEntry ==
    IsCashFlow =>
        /\ Len(ret.value) = ret.model.years_to_exit + 1
        /\ ret.model.years_to_exit > ret.model.years_until_key_reception =>
              ret.value[ret.model.years_to_exit + 1] =
                  ret.model.sale_price - ret.at_exit

=============================================================================
